---- MODULE Spec2Model ----
(***************************************************************************)
(* json2relcsv: JSON document -> relational CSV tables.                    *)
(*                                                                         *)
(* The model follows the pipeline of main: argument scan, yyparse (with    *)
(* the grammar's error productions), AST::assignIds, and the phases of     *)
(* CSVGenerator::generateCSV.  C++ std::string values are TLA+ strings;    *)
(* a character is a string of length one (SubSeq(s, i, i)).                *)
(***************************************************************************)
EXTENDS Integers, Sequences, FiniteSets, TLC

VARIABLES
    argv,              \* command line arguments after the program name
    doc,               \* the tree the grammar actions build from standard input
    pc,                \* position in main / generateCSV
    out_dir,           \* main: std::string out_dir
    errtok,            \* parser: an error token is waiting to be reduced
    nerr,              \* number of syntax errors detected so far
    has_syntax_error,  \* parser.y: bool has_syntax_error
    parse_result,      \* value returned by yyparse (-1 while parsing)
    root,              \* ast.root (the value NoRoot stands for a null pointer)
    streamingMode,     \* CSVGenerator::streamingMode
    gen,               \* CSVGenerator: tables, mergedTables, the two mappings
    tableFiles,        \* CSVGenerator::tableFiles: handle name -> file name
    disk,              \* the file system: file name -> sequence of text lines
    lost,              \* number of rows dropped because a file could not be opened
    exit_status,       \* process exit status (-1 while running)
    print_ast,         \* main.cpp: bool print_ast
    qin, qout,         \* argument and result of a direct call of one function
    blocked,           \* the file system: tables whose <name>.csv cannot be created
    ast_out,           \* standard output: the lines written by ast.print
    stdin_text,        \* standard input as a text
    input,             \* scanner: the part of the text not yet matched
    lineno,            \* scanner: int lineno
    column,            \* scanner: int column
    prev_column,       \* scanner: int prev_column
    token,             \* scanner: the token yylex returned last
    diag               \* standard error: the messages of the scanner

scanVars == <<stdin_text, input, lineno, column, prev_column, token, diag>>

vars == <<argv, doc, pc, out_dir, errtok, nerr, has_syntax_error, parse_result,
          root, streamingMode, gen, tableFiles, disk, lost, exit_status, print_ast,
          qin, qout, blocked, ast_out, scanVars>>

-----------------------------------------------------------------------------
(* Bounds of the model *)

MaxElems == 3      \* longest array in a generated document
MaxErrors == 2     \* most syntax errors detected in one parse
MaxStrLen == 3     \* longest generated argument of a direct call of a string function
MaxArgs == 3       \* most command line arguments
MaxInput == 3      \* longest generated text given to the scanner
MaxUnits == 1      \* most \uXXXX escapes in a generated string token
MaxColumns == 3    \* longest column list given to the id column loop directly

-----------------------------------------------------------------------------
(* std::string helpers *)

Ch(s, i) == SubSeq(s, i, i)

\* ::isspace in the "C" locale (vertical tab has no TLA+ escape and is not used)
IsSpace(c) == c \in {" ", "\t", "\n", "\r", "\f"}

\* std::string::find(sub): 1-based index of the first occurrence, 0 for npos
Find(s, sub) ==
    LET hits == {i \in 1..(Len(s) - Len(sub) + 1) : SubSeq(s, i, i + Len(sub) - 1) = sub}
    IN  IF hits = {} THEN 0 ELSE CHOOSE i \in hits : \A j \in hits : i <= j

Contains(s, sub) == Find(s, sub) # 0

\* std::find over a vector<string>: 1-based index of the first equal element, 0 for end()
IndexOf(seq, x) ==
    LET hits == {i \in 1..Len(seq) : seq[i] = x}
    IN  IF hits = {} THEN 0 ELSE CHOOSE i \in hits : \A j \in hits : i <= j

UpperChars == "ABCDEFGHIJKLMNOPQRSTUVWXYZ"
LowerChars == "abcdefghijklmnopqrstuvwxyz"

\* ::tolower on one character
ToLowerChar(c) ==
    IF Contains(UpperChars, c) /\ Len(c) = 1 THEN Ch(LowerChars, Find(UpperChars, c)) ELSE c

RECURSIVE ToLower(_)
ToLower(s) ==
    IF Len(s) = 0 THEN "" ELSE ToLowerChar(Ch(s, 1)) \o ToLower(SubSeq(s, 2, Len(s)))

DigitChars == "0123456789"

RECURSIVE NatToString(_)
NatToString(n) ==
    IF n < 10 THEN Ch(DigitChars, n + 1)
    ELSE NatToString(n \div 10) \o Ch(DigitChars, (n % 10) + 1)

\* std::to_string(int)
to_string(n) == IF n < 0 THEN "-" \o NatToString(0 - n) ELSE NatToString(n)

\* Characters in ascending byte order, for std::map<std::string, ...> iteration
ByteOrder == "\t\n\f\r \"$,-./0123456789:ABCDEFGHIJKLMNOPQRSTUVWXYZ[\\]_abcdefghijklmnopqrstuvwxyz{}"

RECURSIVE StrLess(_, _)
StrLess(a, b) ==
    IF Len(b) = 0 THEN FALSE
    ELSE IF Len(a) = 0 THEN TRUE
    ELSE IF Ch(a, 1) = Ch(b, 1) THEN StrLess(SubSeq(a, 2, Len(a)), SubSeq(b, 2, Len(b)))
    ELSE Find(ByteOrder, Ch(a, 1)) < Find(ByteOrder, Ch(b, 1))

\* The keys of a std::map in iteration order
RECURSIVE SortedKeys(_)
SortedKeys(S) ==
    IF S = {} THEN <<>>
    ELSE LET m == CHOOSE x \in S : \A y \in S \ {x} : StrLess(x, y)
         IN  <<m>> \o SortedKeys(S \ {m})

\* m[k] = v on a std::map
Put(m, k, v) == [x \in (DOMAIN m) \cup {k} |-> IF x = k THEN v ELSE m[x]]

EmptyMap == [x \in {} |-> 0]

-----------------------------------------------------------------------------
(* csv_generator.cpp: free helper functions *)

trimString(str) ==
    LET nonsp == {i \in 1..Len(str) : ~IsSpace(Ch(str, i))}
        start == IF nonsp = {} THEN Len(str) + 1 ELSE CHOOSE i \in nonsp : \A j \in nonsp : i <= j
        end   == IF nonsp = {} THEN 0 ELSE CHOOSE i \in nonsp : \A j \in nonsp : i >= j
    IN  IF start > end THEN "" ELSE SubSeq(str, start, end)

unquote(str) ==
    LET result == trimString(str)
    IN  IF Len(result) >= 2 /\ Ch(result, 1) = "\"" /\ Ch(result, Len(result)) = "\""
        THEN SubSeq(result, 2, Len(result) - 1)
        ELSE result

\* getSingularForm as it would be if a lone s were stripped too
getSingularForm_AnyLength(plural) ==
    IF Len(plural) > 0 /\ Ch(plural, Len(plural)) = "s"
    THEN SubSeq(plural, 1, Len(plural) - 1)
    ELSE plural

getSingularForm(plural) ==
    IF Len(plural) > 1 /\ Ch(plural, Len(plural)) = "s"
    THEN SubSeq(plural, 1, Len(plural) - 1)
    ELSE plural

\* the loop of quoteCSVField that copies the field, doubling each double quote
RECURSIVE EscapeQuotes(_)
EscapeQuotes(s) ==
    IF Len(s) = 0 THEN ""
    ELSE (IF Ch(s, 1) = "\"" THEN "\"\"" ELSE Ch(s, 1)) \o EscapeQuotes(SubSeq(s, 2, Len(s)))

\* quoteCSVField with the copy loop replaced by a plain copy
quoteCSVField_NoEscape(field) ==
    LET trimmedField == trimString(field)
    IN  IF Contains(trimmedField, ",") \/ Contains(trimmedField, "\"") \/ Contains(trimmedField, "\n")
        THEN "\"" \o trimmedField \o "\""
        ELSE trimmedField

quoteCSVField(field) ==
    LET trimmedField == trimString(field)
    IN  IF Contains(trimmedField, ",") \/ Contains(trimmedField, "\"") \/ Contains(trimmedField, "\n")
        THEN "\"" \o EscapeQuotes(trimmedField) \o "\""
        ELSE trimmedField

-----------------------------------------------------------------------------
(* ast.h: the node hierarchy *)

ObjectNode(pairs) ==
    [type |-> "OBJECT", pairs |-> pairs, tableName |-> "", id |-> -1, parentId |-> -1,
     parentTable |-> "", parentKey |-> "", arrayIndex |-> -1]

ArrayNode(elements) ==
    [type |-> "ARRAY", elements |-> elements, parentKey |-> "", parentId |-> -1,
     parentTable |-> ""]

StringNode(v) == [type |-> "STRING", value |-> v]
NumberNode(v) == [type |-> "NUMBER", value |-> v]
BooleanNode(v) == [type |-> "BOOLEAN", value |-> v]
NullNode == [type |-> "NULL_VALUE"]

KeyValuePair(k, v) == [key |-> k, value |-> v]

\* ValueNode::toString of the four scalar classes
NodeToString(n) ==
    CASE n.type = "STRING" -> n.value
      [] n.type = "NUMBER" -> n.value
      [] n.type = "BOOLEAN" -> (IF n.value THEN "true" ELSE "false")
      [] OTHER -> ""

IsScalarType(t) == t \in {"STRING", "NUMBER", "BOOLEAN", "NULL_VALUE"}

\* a null std::shared_ptr<AstNode>
NoRoot == [type |-> "NONE"]

-----------------------------------------------------------------------------
(* ast.cpp: printing (lines 8-82) *)

RECURSIVE printIndent(_)
printIndent(indent) == IF indent <= 0 THEN "" ELSE "  " \o printIndent(indent - 1)

\* the tree printed with the annotation of every object, whatever its tableName
RECURSIVE NodePrint_Annotated(_, _)
RECURSIVE PrintPairs_Annotated(_, _, _)
RECURSIVE PrintElements_Annotated(_, _, _)
NodePrint_Annotated(n, indent) ==
    CASE n.type = "OBJECT" ->
            printIndent(indent) \o "OBJECT"
            \o " (Table: " \o n.tableName \o ", ID: " \o to_string(n.id) \o ")"
            \o " {\n" \o PrintPairs_Annotated(n.pairs, 1, indent) \o printIndent(indent) \o "}"
      [] n.type = "ARRAY" ->
            printIndent(indent) \o "ARRAY"
            \o (IF n.parentKey # "" THEN " (Key: " \o n.parentKey \o ")" ELSE "")
            \o " [\n" \o PrintElements_Annotated(n.elements, 1, indent) \o printIndent(indent) \o "]"
      [] n.type = "STRING" -> "STRING \"" \o n.value \o "\""
      [] n.type = "NUMBER" -> "NUMBER " \o n.value
      [] n.type = "BOOLEAN" -> "BOOLEAN " \o (IF n.value THEN "true" ELSE "false")
      [] OTHER -> "NULL"
PrintPairs_Annotated(pairs, i, indent) ==
    IF i > Len(pairs) THEN ""
    ELSE printIndent(indent + 1) \o "\"" \o pairs[i].key \o "\": "
         \o NodePrint_Annotated(pairs[i].value, indent + 1) \o "\n"
         \o PrintPairs_Annotated(pairs, i + 1, indent)
PrintElements_Annotated(elements, i, indent) ==
    IF i > Len(elements) THEN ""
    ELSE printIndent(indent + 1) \o "[" \o to_string(i - 1) \o "]: "
         \o NodePrint_Annotated(elements[i], indent + 1) \o "\n"
         \o PrintElements_Annotated(elements, i + 1, indent)

\* ObjectNode::print, ArrayNode::print and the print of the four scalar classes
RECURSIVE NodePrint(_, _)
RECURSIVE PrintPairs(_, _, _)
RECURSIVE PrintElements(_, _, _)
NodePrint(n, indent) ==
    CASE n.type = "OBJECT" ->
            printIndent(indent) \o "OBJECT"
            \o (IF n.tableName # ""
                THEN " (Table: " \o n.tableName \o ", ID: " \o to_string(n.id) \o ")"
                ELSE "")
            \o " {\n" \o PrintPairs(n.pairs, 1, indent) \o printIndent(indent) \o "}"
      [] n.type = "ARRAY" ->
            printIndent(indent) \o "ARRAY"
            \o (IF n.parentKey # "" THEN " (Key: " \o n.parentKey \o ")" ELSE "")
            \o " [\n" \o PrintElements(n.elements, 1, indent) \o printIndent(indent) \o "]"
      [] n.type = "STRING" -> "STRING \"" \o n.value \o "\""
      [] n.type = "NUMBER" -> "NUMBER " \o n.value
      [] n.type = "BOOLEAN" -> "BOOLEAN " \o (IF n.value THEN "true" ELSE "false")
      [] OTHER -> "NULL"
PrintPairs(pairs, i, indent) ==
    IF i > Len(pairs) THEN ""
    ELSE printIndent(indent + 1) \o "\"" \o pairs[i].key \o "\": "
         \o NodePrint(pairs[i].value, indent + 1) \o "\n"
         \o PrintPairs(pairs, i + 1, indent)
PrintElements(elements, i, indent) ==
    IF i > Len(elements) THEN ""
    ELSE printIndent(indent + 1) \o "[" \o to_string(i - 1) \o "]: "
         \o NodePrint(elements[i], indent + 1) \o "\n"
         \o PrintElements(elements, i + 1, indent)

\* AST::print
ASTprint(r) == IF r.type # "NONE" THEN NodePrint(r, 0) \o "\n" ELSE "Empty AST\n"

-----------------------------------------------------------------------------
(* ast.cpp: key signatures and array classification *)

\* std::sort of a vector of keys (insertion into an already sorted sequence)
RECURSIVE InsertSorted(_, _)
InsertSorted(sorted, k) ==
    IF Len(sorted) = 0 THEN <<k>>
    ELSE IF StrLess(k, sorted[1]) THEN <<k>> \o sorted
    ELSE <<sorted[1]>> \o InsertSorted(Tail(sorted), k)

RECURSIVE SortKeys(_)
SortKeys(keys) ==
    IF Len(keys) = 0 THEN <<>> ELSE InsertSorted(SortKeys(Tail(keys)), keys[1])

RECURSIVE JoinWith(_, _)
JoinWith(strs, sep) ==
    IF Len(strs) = 0 THEN ""
    ELSE IF Len(strs) = 1 THEN strs[1]
    ELSE strs[1] \o sep \o JoinWith(Tail(strs), sep)

getKeySignature(obj) ==
    JoinWith(SortKeys([i \in 1..Len(obj.pairs) |-> obj.pairs[i].key]), ",")

\* isArrayOfObjects as it would be without the comparison of key signatures
isArrayOfObjects_AnyObjects(arr) ==
    /\ Len(arr.elements) > 0
    /\ \A i \in 1..Len(arr.elements) : arr.elements[i].type = "OBJECT"

isArrayOfObjects(arr) ==
    /\ Len(arr.elements) > 0
    /\ \A i \in 1..Len(arr.elements) : arr.elements[i].type = "OBJECT"
    /\ \A i \in 2..Len(arr.elements) :
          getKeySignature(arr.elements[i]) = getKeySignature(arr.elements[1])

isArrayOfScalars(arr) ==
    /\ Len(arr.elements) > 0
    /\ \A i \in 1..Len(arr.elements) : IsScalarType(arr.elements[i].type)

-----------------------------------------------------------------------------
(* ast.cpp: AST::assignIds.  Each operator returns the rewritten node and   *)
(* the next free identifier.                                                *)

RECURSIVE ObjectAssignIds(_, _), ArrayAssignIds(_, _), AssignPairs(_, _, _, _, _),
          AssignElements(_, _, _, _)

ObjectAssignIds(obj, nextId) ==
    LET tableName == IF obj.parentTable = "" THEN "root"
                     ELSE IF obj.parentKey # "" THEN obj.parentKey
                     ELSE obj.parentTable \o "_" \o to_string(nextId)
        r == AssignPairs(obj.pairs, 1, nextId + 1, nextId, tableName)
    IN  [node |-> [obj EXCEPT !.tableName = tableName, !.id = nextId, !.pairs = r.pairs],
         nextId |-> r.nextId]

\* the loop over pairs, from pair i on
AssignPairs(pairs, i, nextId, id, tableName) ==
    IF i > Len(pairs) THEN [pairs |-> pairs, nextId |-> nextId]
    ELSE LET v == pairs[i].value
             linked == [v EXCEPT !.parentId = id, !.parentTable = tableName,
                                 !.parentKey = pairs[i].key]
             r == IF v.type = "OBJECT" THEN ObjectAssignIds(linked, nextId)
                  ELSE IF v.type = "ARRAY" THEN ArrayAssignIds(linked, nextId)
                  ELSE [node |-> v, nextId |-> nextId]
         IN  AssignPairs([pairs EXCEPT ![i].value = r.node], i + 1, r.nextId, id, tableName)

ArrayAssignIds(arr, nextId) ==
    IF isArrayOfObjects(arr)
    THEN LET r == AssignElements(arr.elements, 1, nextId, arr)
         IN  [node |-> [arr EXCEPT !.elements = r.elements], nextId |-> r.nextId]
    ELSE [node |-> arr, nextId |-> nextId]

\* the loop over elements starting every element from the same counter value
RECURSIVE AssignElements_SameCounter(_, _, _, _)
AssignElements_SameCounter(elements, i, nextId, arr) ==
    IF i > Len(elements) THEN [elements |-> elements, nextId |-> nextId]
    ELSE LET e == elements[i]
             key == IF arr.parentKey = "" THEN "item_" \o to_string(i - 1)
                    ELSE arr.parentKey \o "_" \o to_string(i - 1)
             r == IF e.type = "OBJECT"
                  THEN ObjectAssignIds([e EXCEPT !.parentId = arr.parentId,
                                                 !.parentTable = arr.parentTable,
                                                 !.parentKey = key], nextId)
                  ELSE [node |-> e, nextId |-> nextId]
         IN  AssignElements_SameCounter([elements EXCEPT ![i] = r.node], i + 1, nextId, arr)

\* the loop over elements, from element i on (index = i - 1)
AssignElements(elements, i, nextId, arr) ==
    IF i > Len(elements) THEN [elements |-> elements, nextId |-> nextId]
    ELSE LET e == elements[i]
             key == IF arr.parentKey = "" THEN "item_" \o to_string(i - 1)
                    ELSE arr.parentKey \o "_" \o to_string(i - 1)
             r == IF e.type = "OBJECT"
                  THEN ObjectAssignIds([e EXCEPT !.parentId = arr.parentId,
                                                 !.parentTable = arr.parentTable,
                                                 !.parentKey = key], nextId)
                  ELSE [node |-> e, nextId |-> nextId]
         IN  AssignElements([elements EXCEPT ![i] = r.node], i + 1, r.nextId, arr)

\* AST::assignIds, applied to the root pointer
ASTassignIds(r) ==
    IF r.type = "NONE" THEN r
    ELSE IF r.type = "OBJECT" THEN ObjectAssignIds(r, 1).node
    ELSE IF r.type = "ARRAY" THEN ArrayAssignIds(r, 1).node
    ELSE r

-----------------------------------------------------------------------------
(* csv_generator.cpp, phase 1: analyzeAst / analyzeObject / analyzeArray.   *)
(* g is the generator state; each operator returns the rewritten node and   *)
(* the new generator state.                                                 *)

TableSchema(name, columns) == [name |-> name, columns |-> columns, rows |-> <<>>]

NewGenerator ==
    [tables |-> EmptyMap, mergedTables |-> {}, objArrayMappings |-> EmptyMap,
     scalarArrayMappings |-> EmptyMap]

\* mapping[parentTable].push_back(tableName)
PushMapping(mapping, parentTable, tableName) ==
    Put(mapping, parentTable,
        (IF parentTable \in DOMAIN mapping THEN mapping[parentTable] ELSE <<>>) \o <<tableName>>)

\* tables[tableName]->columns.push_back(col)
PushColumn(g, tableName, col) ==
    [g EXCEPT !.tables[tableName].columns = Append(@, col)]

\* the columns a new object table starts with: id, then every non-container key
RECURSIVE ScalarKeys(_)
ScalarKeys(pairs) ==
    IF Len(pairs) = 0 THEN <<>>
    ELSE (IF pairs[1].value.type \notin {"OBJECT", "ARRAY"}
          THEN <<trimString(pairs[1].key)>> ELSE <<>>) \o ScalarKeys(Tail(pairs))

\* analyzeArray, lines 496-504: append the element's scalar keys that are not columns yet
RECURSIVE UnionColumns(_, _)
UnionColumns(columns, pairs) ==
    IF Len(pairs) = 0 THEN columns
    ELSE LET colName == trimString(pairs[1].key)
         IN  UnionColumns(IF pairs[1].value.type \notin {"OBJECT", "ARRAY"}
                             /\ IndexOf(columns, colName) = 0
                          THEN Append(columns, colName) ELSE columns,
                          Tail(pairs))

RECURSIVE analyzeObject(_, _), analyzeArray(_, _, _), AnalyzePairs(_, _, _, _),
          AnalyzeElements(_, _, _, _, _)

\* analyzeObject as it would be if a later object added its scalar keys to the table
analyzeObject_AddColumns(objNode, g) ==
    LET tableName == IF objNode.parentKey = "" THEN "root" ELSE objNode.parentKey
        g1 == IF tableName \in DOMAIN g.tables
              THEN [g EXCEPT !.tables[tableName].columns = UnionColumns(@, objNode.pairs)]
              ELSE [g EXCEPT !.tables =
                        Put(@, tableName,
                            TableSchema(tableName, <<"id">> \o ScalarKeys(objNode.pairs)))]
    IN  AnalyzePairs([objNode EXCEPT !.tableName = tableName], 1, tableName, g1)

analyzeObject(objNode, g) ==
    LET tableName == IF objNode.parentKey = "" THEN "root" ELSE objNode.parentKey
        g1 == IF tableName \in DOMAIN g.tables THEN g
              ELSE [g EXCEPT !.tables =
                        Put(@, tableName,
                            TableSchema(tableName, <<"id">> \o ScalarKeys(objNode.pairs)))]
    IN  AnalyzePairs([objNode EXCEPT !.tableName = tableName], 1, tableName, g1)

\* the second loop of analyzeObject, from pair i on
AnalyzePairs(objNode, i, tableName, g) ==
    IF i > Len(objNode.pairs) THEN [node |-> objNode, g |-> g]
    ELSE LET pair == objNode.pairs[i]
             linked == [pair.value EXCEPT !.parentTable = tableName,
                                          !.parentKey = trimString(pair.key),
                                          !.parentId = objNode.id]
         IN  IF pair.value.type = "OBJECT"
             THEN LET r == analyzeObject(linked, g)
                      fkCol == getSingularForm(r.node.tableName) \o "_id"
                  IN  AnalyzePairs([objNode EXCEPT !.pairs[i].value = r.node], i + 1,
                                   tableName, PushColumn(r.g, tableName, fkCol))
             ELSE IF pair.value.type = "ARRAY"
             THEN LET r == analyzeArray(linked, linked.parentKey, g)
                  IN  AnalyzePairs([objNode EXCEPT !.pairs[i].value = r.node], i + 1,
                                   tableName, r.g)
             ELSE AnalyzePairs(objNode, i + 1, tableName, g)

analyzeArray(arrayNode, parentKey, g) ==
    IF isArrayOfObjects(arrayNode)
    THEN LET tableName == trimString(arrayNode.parentKey)
             schema == TableSchema(tableName,
                          <<"id", getSingularForm(arrayNode.parentTable) \o "_id", "seq">>)
             g1 == [g EXCEPT !.tables = Put(@, tableName, schema),
                             !.objArrayMappings =
                                 PushMapping(@, arrayNode.parentTable, tableName)]
             r == AnalyzeElements(arrayNode.elements, 1, arrayNode, tableName, g1)
         IN  [node |-> [arrayNode EXCEPT !.elements = r.elements], g |-> r.g]
    ELSE IF isArrayOfScalars(arrayNode)
    THEN LET tableName == trimString(parentKey)
             schema == TableSchema(tableName,
                          <<"id", getSingularForm(arrayNode.parentTable) \o "_id", "seq",
                            "value">>)
         IN  [node |-> arrayNode,
              g |-> [g EXCEPT !.tables = Put(@, tableName, schema),
                              !.scalarArrayMappings =
                                  PushMapping(@, arrayNode.parentTable, tableName)]]
    ELSE [node |-> arrayNode, g |-> g]

\* the loop over the elements of an array of objects, from element i on
AnalyzeElements(elements, i, arrayNode, tableName, g) ==
    IF i > Len(elements) THEN [elements |-> elements, g |-> g]
    ELSE LET objNode == [elements[i] EXCEPT !.parentTable = arrayNode.parentTable,
                                            !.parentKey = tableName,
                                            !.parentId = arrayNode.parentId,
                                            !.tableName = tableName,
                                            !.arrayIndex = i - 1]
             r == analyzeObject(objNode, g)
             g2 == [r.g EXCEPT !.tables[tableName].columns =
                                    UnionColumns(@, r.node.pairs)]
         IN  AnalyzeElements([elements EXCEPT ![i] = r.node], i + 1, arrayNode,
                             tableName, g2)

analyzeAst(node, g) ==
    IF node.type = "OBJECT" THEN analyzeObject(node, g)
    ELSE IF node.type = "ARRAY" THEN analyzeArray(node, "root", g)
    ELSE [node |-> node, g |-> g]

-----------------------------------------------------------------------------
(* csv_generator.cpp, phase 2: renameTablesBasedOnContent *)

\* the root naming loop when only the literal id column is skipped
RECURSIVE RootNewName_SkipIdOnly(_)
RootNewName_SkipIdOnly(columns) ==
    IF Len(columns) = 0 THEN "entities"
    ELSE LET lowerCol == ToLower(columns[1])
         IN  IF lowerCol # "id" THEN lowerCol \o "s"
             ELSE RootNewName_SkipIdOnly(Tail(columns))

\* lines 350-360: the root table is named after its first meaningful column
RECURSIVE RootNewName(_)
RootNewName(columns) ==
    IF Len(columns) = 0 THEN "entities"
    ELSE LET lowerCol == ToLower(columns[1])
         IN  IF lowerCol # "id" /\ ~Contains(lowerCol, "_id")
             THEN lowerCol \o "s"
             ELSE RootNewName(Tail(columns))

\* lines 362-377: a child table keeps the part of its key after the first underscore.
\* (std::string::back on an empty suffix is undefined; no key of the model ends
\* in its first underscore.)
ChildNewName(name, g) ==
    LET underscorePos == Find(name, "_")
        suffix == SubSeq(name, underscorePos + 1, Len(name))
    IN  IF underscorePos # 0
        THEN IF Len(suffix) > 0 /\ Ch(suffix, Len(suffix)) # "s"
                /\ (name \in DOMAIN g.scalarArrayMappings \/ name \in DOMAIN g.objArrayMappings)
             THEN suffix \o "s"
             ELSE suffix
        ELSE name

\* the map oldToNewNames once the first loop has finished (each entry depends on
\* its own table only, the looked-up prefix is never used)
OldToNewNames(g) ==
    [name \in DOMAIN g.tables |->
        IF name = "root" THEN RootNewName(g.tables[name].columns)
        ELSE ChildNewName(name, g)]

\* lines 387-392: one column in the loop that updates foreign key columns
RenameForeignKey(col, oldToNewNames) ==
    IF Contains(col, "_id") /\ col # "id"
    THEN LET parentName == SubSeq(col, 1, Len(col) - 3)
             pluralParent == parentName \o "s"
         IN  IF pluralParent \in DOMAIN oldToNewNames
             THEN getSingularForm(oldToNewNames[pluralParent]) \o "_id"
             ELSE col
    ELSE col

renameTablesBasedOnContent(g) ==
    LET oldToNewNames == OldToNewNames(g)
    IN  [g EXCEPT !.tables =
            [name \in DOMAIN g.tables |->
                [g.tables[name] EXCEPT
                    !.name = oldToNewNames[name],
                    !.columns = [i \in 1..Len(@) |-> RenameForeignKey(@[i], oldToNewNames)]]]]

-----------------------------------------------------------------------------
(* csv_generator.cpp, phase 3: processRelationships and mergeTable *)

\* lines 264-277: in a table whose key has an underscore, the first column
\* named parent_id is renamed after the key's prefix
RenameParentId(name, columns) ==
    LET underscorePos == Find(name, "_")
        parentName == SubSeq(name, 1, underscorePos - 1)
        k == IndexOf(columns, "parent_id")
    IN  IF underscorePos # 0 /\ k # 0
        THEN [columns EXCEPT ![k] = getSingularForm(parentName) \o "_id"]
        ELSE columns

\* mergeTable with the column names of the users/authors case written out
mergeTable_Literal(sourceTable, targetTable, g) ==
    IF sourceTable \notin DOMAIN g.tables \/ targetTable \notin DOMAIN g.tables THEN g
    ELSE [g EXCEPT
            !.tables = [name \in DOMAIN g.tables |->
                          [g.tables[name] EXCEPT !.columns =
                              [i \in 1..Len(@) |->
                                  IF @[i] = "authors_id" THEN "users_id" ELSE @[i]]]],
            !.mergedTables = @ \cup {sourceTable}]

mergeTable(sourceTable, targetTable, g) ==
    IF sourceTable \notin DOMAIN g.tables \/ targetTable \notin DOMAIN g.tables THEN g
    ELSE [g EXCEPT
            !.tables = [name \in DOMAIN g.tables |->
                          [g.tables[name] EXCEPT !.columns =
                              [i \in 1..Len(@) |->
                                  IF @[i] = sourceTable \o "_id"
                                  THEN targetTable \o "_id" ELSE @[i]]]],
            !.mergedTables = @ \cup {sourceTable}]

\* std::find_if over the tables in key order: <<key>> of the first table that
\* matches, the empty sequence for end()
RECURSIVE FirstMatch(_, _, _)
FirstMatch(keys, tables, wanted) ==
    IF Len(keys) = 0 THEN <<>>
    ELSE IF keys[1] = wanted \/ tables[keys[1]].name = wanted THEN <<keys[1]>>
    ELSE FirstMatch(Tail(keys), tables, wanted)

\* (the signature grouping of lines 279-302 only fills local variables)
processRelationships(g) ==
    LET g1 == [g EXCEPT !.tables =
                  [name \in DOMAIN g.tables |->
                      [g.tables[name] EXCEPT !.columns = RenameParentId(name, @)]]]
        keys == SortedKeys(DOMAIN g1.tables)
        usersIt == FirstMatch(keys, g1.tables, "users")
        authorsIt == FirstMatch(keys, g1.tables, "authors")
    IN  IF usersIt # <<>> /\ authorsIt # <<>>
        THEN mergeTable(authorsIt[1], usersIt[1], g1)
        ELSE g1

getTableNames(g) ==
    LET keys == SortedKeys(DOMAIN g.tables)
        kept == SelectSeq(keys, LAMBDA k : k \notin g.mergedTables)
    IN  [i \in 1..Len(kept) |-> g.tables[kept[i]].name]

-----------------------------------------------------------------------------
(* csv_generator.cpp, phase 4: the id column loop of generateCSV (lines 138-156) *)

RemoveAt(seq, k) == SubSeq(seq, 1, k - 1) \o SubSeq(seq, k + 1, Len(seq))

\* the loop as it would be if a table without an id column were left without one
NormalizeColumns_KeepMissingId(columns) ==
    LET it == IndexOf(columns, "id")
        c1 == IF it > 1 THEN <<"id">> \o RemoveAt(columns, it) ELSE columns
        rt == IndexOf(c1, "root_id")
    IN  IF rt # 0 THEN RemoveAt(c1, rt) ELSE c1

NormalizeColumns(columns) ==
    LET it == IndexOf(columns, "id")
        c1 == IF it # 1 /\ Len(columns) > 0
              THEN <<"id">> \o (IF it # 0 THEN RemoveAt(columns, it) ELSE columns)
              ELSE columns
        rt == IndexOf(c1, "root_id")
    IN  IF rt # 0 THEN RemoveAt(c1, rt) ELSE c1

normalizeIdColumns(g) ==
    [g EXCEPT !.tables =
        [name \in DOMAIN g.tables |-> [g.tables[name] EXCEPT !.columns = NormalizeColumns(@)]]]

-----------------------------------------------------------------------------
(* Output files.  w is the working state of generateCSV after phase 4:      *)
(* tables, tableFiles, disk, lost, outputDir, streamingMode.                *)

\* directories that exist when the program starts
ExistingDirs == {".", "out"}

\* std::ofstream(filename).is_open(): the file can be created iff its directory exists
\* (a file name without directory is created in the current directory)
CanOpen(outputDir) == outputDir = "" \/ outputDir \in ExistingDirs

\* is_open() of the stream made for one table: its directory exists and nothing
\* that cannot be overwritten has the file's name
CanOpenFile(w, tableName) == CanOpen(w.outputDir) /\ tableName \notin w.blocked

\* lines 164-169 and 199-204
FileName(outputDir, tableName) ==
    IF outputDir # "" THEN outputDir \o "/" \o tableName \o ".csv" ELSE tableName \o ".csv"

\* one output line: the fields joined by " , " (std::endl ends the line)
CsvLine(fields) == JoinWith(fields, " , ")

RECURSIVE NonEmptyRowLines(_)
NonEmptyRowLines(rows) ==
    IF Len(rows) = 0 THEN <<>>
    ELSE (IF Len(rows[1]) > 0 THEN <<CsvLine(rows[1])>> ELSE <<>>) \o NonEmptyRowLines(Tail(rows))

HeaderLines(columns) == IF Len(columns) > 0 THEN <<CsvLine(columns)>> ELSE <<>>

writeTableRow(tableName, row, w) ==
    LET isOpen == tableName \in DOMAIN w.tableFiles
        filename == w.outputDir \o "/" \o tableName \o ".csv"
        header == IF tableName \in DOMAIN w.tables /\ Len(w.tables[tableName].columns) > 0
                  THEN <<CsvLine([i \in 1..Len(w.tables[tableName].columns) |->
                                      trimString(w.tables[tableName].columns[i])])>>
                  ELSE <<>>
        rowLines == IF Len(row) > 0 THEN <<CsvLine(row)>> ELSE <<>>
    IN  IF isOpen
        THEN [w EXCEPT !.disk[w.tableFiles[tableName]] = @ \o rowLines]
        ELSE IF w.outputDir = "" \/ ~CanOpenFile(w, tableName)
        THEN [w EXCEPT !.lost = @ + 1]
        ELSE [w EXCEPT !.tableFiles = Put(@, tableName, filename),
                       !.disk = Put(@, filename, header \o rowLines)]

\* the streaming set-up loop of generateCSV (lines 159-188), from key i on
RECURSIVE OpenStreams(_, _, _)
OpenStreams(keys, i, w) ==
    IF i > Len(keys) THEN w
    ELSE LET filename == FileName(w.outputDir, keys[i])
         IN  IF ~CanOpenFile(w, keys[i]) THEN OpenStreams(keys, i + 1, w)
             ELSE OpenStreams(keys, i + 1,
                     [w EXCEPT !.disk = Put(@, filename, HeaderLines(w.tables[keys[i]].columns)),
                               !.tableFiles = Put(@, keys[i], filename)])

\* the batch loop leaving at the first file that cannot be opened
RECURSIVE FlushTables_StopAtFailure(_, _, _)
FlushTables_StopAtFailure(keys, i, w) ==
    IF i > Len(keys) THEN w
    ELSE LET filename == FileName(w.outputDir, keys[i])
             schema == w.tables[keys[i]]
         IN  IF ~CanOpenFile(w, keys[i]) THEN w
             ELSE FlushTables_StopAtFailure(keys, i + 1,
                     [w EXCEPT !.disk = Put(@, filename,
                          HeaderLines(schema.columns) \o NonEmptyRowLines(schema.rows))])

\* the batch loop of generateCSV (lines 194-234), from key i on
RECURSIVE FlushTables(_, _, _)
FlushTables(keys, i, w) ==
    IF i > Len(keys) THEN w
    ELSE LET filename == FileName(w.outputDir, keys[i])
             schema == w.tables[keys[i]]
         IN  IF ~CanOpenFile(w, keys[i]) THEN FlushTables(keys, i + 1, w)
             ELSE FlushTables(keys, i + 1,
                     [w EXCEPT !.disk = Put(@, filename,
                          HeaderLines(schema.columns) \o NonEmptyRowLines(schema.rows))])

-----------------------------------------------------------------------------
(* csv_generator.cpp, phase 5: generateRowsFromAst / Object / Array *)

\* a value whose column was not found is put at the end of the row
SetField_Append(row, index, value) ==
    IF index = 0 THEN Append(row, value) ELSE [row EXCEPT ![index] = value]

\* row[index] = value when the column was found (index # 0)
SetField(row, index, value) == IF index = 0 THEN row ELSE [row EXCEPT ![index] = value]

\* a finished row goes to the stream or to the schema's row list
EmitRow(tableKey, row, w) ==
    IF w.streamingMode THEN writeTableRow(w.tables[tableKey].name, row, w)
    ELSE [w EXCEPT !.tables[tableKey].rows = Append(@, row)]

\* lines 574-583: the text written for one scalar pair of an object
ObjectFieldValue(value) ==
    IF value.type = "STRING" THEN quoteCSVField(value.value)
    ELSE IF value.type = "NUMBER" THEN NodeToString(value)
    ELSE IF value.type = "BOOLEAN" THEN NodeToString(value)
    ELSE ""

\* the scalar loop as it would be if a field that is already filled were kept
RECURSIVE FillScalars_FirstWins(_, _, _, _)
FillScalars_FirstWins(row, columns, pairs, i) ==
    IF i > Len(pairs) THEN row
    ELSE LET index == IndexOf(columns, trimString(pairs[i].key))
         IN  FillScalars_FirstWins(
                         IF index # 0 /\ pairs[i].value.type \notin {"OBJECT", "ARRAY"}
                            /\ row[index] = ""
                         THEN SetField(row, index, ObjectFieldValue(pairs[i].value))
                         ELSE row,
                         columns, pairs, i + 1)

\* lines 569-586: the loop that fills the scalar columns, from pair i on
RECURSIVE FillScalars(_, _, _, _)
FillScalars(row, columns, pairs, i) ==
    IF i > Len(pairs) THEN row
    ELSE LET index == IndexOf(columns, trimString(pairs[i].key))
         IN  FillScalars(IF index # 0 /\ pairs[i].value.type \notin {"OBJECT", "ARRAY"}
                         THEN SetField(row, index, ObjectFieldValue(pairs[i].value))
                         ELSE row,
                         columns, pairs, i + 1)

\* lines 723-737: the text written for one element of a scalar array
ArrayElementValue(elem) ==
    IF elem.type = "STRING" THEN trimString(unquote(NodeToString(elem)))
    ELSE IF elem.type = "NUMBER" THEN trimString(NodeToString(elem))
    ELSE IF elem.type = "BOOLEAN" THEN trimString(NodeToString(elem))
    ELSE ""

\* lines 636-657: the table a scalar array writes to, <<key>> or the empty sequence
ScalarArrayTable(arrayNode, tables) ==
    LET tableName == IF arrayNode.parentKey = "genres" \/ arrayNode.parentKey = "genre"
                     THEN "genre"
                     ELSE IF arrayNode.parentKey = "tags" THEN "tags"
                     ELSE arrayNode.parentTable \o "_" \o arrayNode.parentKey
        keys == SortedKeys(DOMAIN tables)
        byName == SelectSeq(keys, LAMBDA k : tables[k].name = tableName)
    IN  IF tableName \in DOMAIN tables THEN <<tableName>>
        ELSE IF Len(byName) > 0 THEN <<byName[1]>>
        ELSE <<>>

RECURSIVE generateRowsFromObject(_, _), generateRowsFromArray(_, _),
          RowsFromPairs(_, _, _, _, _), RowsFromElements(_, _, _, _),
          RowsFromScalars(_, _, _, _)

generateRowsFromObject(objNode, w) ==
    IF objNode.tableName = "" \/ objNode.tableName \notin DOMAIN w.tables
    THEN [node |-> objNode, w |-> w]
    ELSE LET tableName == objNode.tableName
             columns == w.tables[tableName].columns
             row0 == [i \in 1..Len(columns) |-> ""]
             row1 == SetField(row0, IndexOf(columns, "id"), to_string(objNode.id))
             row2 == IF objNode.parentId >= 0
                     THEN SetField(row1,
                                   IndexOf(columns, getSingularForm(objNode.parentTable) \o "_id"),
                                   to_string(objNode.parentId))
                     ELSE row1
             row3 == IF objNode.arrayIndex >= 0
                     THEN SetField(row2, IndexOf(columns, "seq"), to_string(objNode.arrayIndex))
                     ELSE row2
             row4 == FillScalars(row3, columns, objNode.pairs, 1)
             r == RowsFromPairs(objNode, 1, row4, columns, w)
         IN  [node |-> r.node, w |-> EmitRow(tableName, r.row, r.w)]

\* lines 588-601: the loop over nested objects and arrays, from pair i on
RowsFromPairs(objNode, i, row, columns, w) ==
    IF i > Len(objNode.pairs) THEN [node |-> objNode, row |-> row, w |-> w]
    ELSE LET value == objNode.pairs[i].value
         IN  IF value.type = "OBJECT"
             THEN LET fkCol == getSingularForm(value.tableName) \o "_id"
                      r == generateRowsFromObject(value, w)
                  IN  RowsFromPairs([objNode EXCEPT !.pairs[i].value = r.node], i + 1,
                                    SetField(row, IndexOf(columns, fkCol), to_string(value.id)),
                                    columns, r.w)
             ELSE IF value.type = "ARRAY"
             THEN LET r == generateRowsFromArray(value, w)
                  IN  RowsFromPairs([objNode EXCEPT !.pairs[i].value = r.node], i + 1,
                                    row, columns, r.w)
             ELSE RowsFromPairs(objNode, i + 1, row, columns, w)

generateRowsFromArray(arrayNode, w) ==
    IF isArrayOfObjects(arrayNode)
    THEN LET r == RowsFromElements(arrayNode.elements, 1, arrayNode, w)
         IN  [node |-> [arrayNode EXCEPT !.elements = r.elements], w |-> r.w]
    ELSE IF isArrayOfScalars(arrayNode)
    THEN LET tableIt == ScalarArrayTable(arrayNode, w.tables)
         IN  IF tableIt = <<>> THEN [node |-> arrayNode, w |-> w]
             ELSE [node |-> arrayNode, w |-> RowsFromScalars(arrayNode, 1, tableIt[1], w)]
    ELSE [node |-> arrayNode, w |-> w]

\* lines 616-632: index is incremented when it is stored and again at the end
\* of each iteration, so element i (1-based) gets arrayIndex 2 * (i - 1)
RowsFromElements(elements, i, arrayNode, w) ==
    IF i > Len(elements) THEN [elements |-> elements, w |-> w]
    ELSE LET objNode == [elements[i] EXCEPT !.arrayIndex = 2 * (i - 1),
                                            !.parentId = arrayNode.parentId]
             r == generateRowsFromObject(objNode, w)
         IN  RowsFromElements([elements EXCEPT ![i] = r.node], i + 1, arrayNode, r.w)

\* lines 661-750: one row per element, from element i on
RowsFromScalars(arrayNode, i, tableKey, w) ==
    IF i > Len(arrayNode.elements) THEN w
    ELSE LET columns == w.tables[tableKey].columns
             fk == IndexOf(columns, getSingularForm(arrayNode.parentTable) \o "_id")
             parentIdIdx == IF fk # 0 THEN fk ELSE IndexOf(columns, "parent_id")
             sq == IndexOf(columns, "seq")
             seqIdx == IF sq # 0 THEN sq ELSE IndexOf(columns, "index")
             row0 == [k \in 1..Len(columns) |-> ""]
             row1 == SetField(row0, IndexOf(columns, "id"), to_string(i))
             row2 == SetField(row1, parentIdIdx, to_string(arrayNode.parentId))
             row3 == SetField(row2, seqIdx, to_string(i - 1))
             row4 == SetField(row3, IndexOf(columns, "value"),
                              ArrayElementValue(arrayNode.elements[i]))
         IN  RowsFromScalars(arrayNode, i + 1, tableKey, EmitRow(tableKey, row4, w))

generateRowsFromAst(node, w) ==
    IF node.type = "OBJECT" THEN generateRowsFromObject(node, w)
    ELSE IF node.type = "ARRAY" THEN generateRowsFromArray(node, w)
    ELSE [node |-> node, w |-> w]

-----------------------------------------------------------------------------
(* Input documents *)

S(v) == StringNode(v)
N(v) == NumberNode(v)
P(k, v) == KeyValuePair(k, v)
Obj(pairs) == ObjectNode(pairs)
Arr(elements) == ArrayNode(elements)

\* the documents named in the specification's examples
DocEmpty == Obj(<<>>)
DocMovie == Obj(<<P("movie", S("Inception")), P("year", N("2010"))>>)
DocTags == Obj(<<P("tags", Arr(<<S("a"), S("b"), S("c")>>))>>)
DocAuthor == Obj(<<P("author", Obj(<<P("name", S("Bob"))>>))>>)
DocQuote == Obj(<<P("quote", S("He said, \"hi\""))>>)

\* element i of a generated array, by kind of array
ScalarBase == <<S("a"), S("b,\"c\""), N("3"), NullNode, BooleanNode(TRUE)>>

Element(kind, i) ==
    CASE kind = "scalars" -> ScalarBase[((i - 1) % Len(ScalarBase)) + 1]
      [] kind = "objects" -> Obj(<<P("a", N(to_string(i))), P("b", S("v"))>>)
      [] kind = "union" ->
            IF i % 2 = 1
            THEN Obj(<<P("a", N(to_string(i))), P("b", Obj(<<P("x", N("1"))>>))>>)
            ELSE Obj(<<P("a", Obj(<<P("y", N("2"))>>)), P("b", S("w"))>>)
      [] kind = "nested" -> Obj(<<P("a", N(to_string(i))), P("c", Obj(<<P("x", N("1"))>>))>>)
      [] kind = "keyed" -> Obj(<<P("seq", N("7")), P("id", N("9"))>>)
      [] kind = "hetero" -> IF i % 2 = 1 THEN Obj(<<P("a", N("1"))>>) ELSE Obj(<<P("b", N("2"))>>)
      [] OTHER -> IF i % 2 = 1 THEN S("a") ELSE Obj(<<P("a", N("1"))>>)

GenArray(kind, n) == Arr([i \in 1..n |-> Element(kind, i)])

ScalarArrayKeys == {"tags", "genre", "genres", "colors"}
ObjectArrayKinds == {"objects", "union", "nested", "keyed", "hetero", "mixed"}

ScalarFields ==
    {P("movie", S("Inception")), P("Title", S(" x,y ")), P("id", N("7")),
     P("authors_id", N("5")), P("note", NullNode), P("ok", BooleanNode(FALSE))}

ObjectFields ==
    {P("author", Obj(<<P("name", S("Bob"))>>)),
     P("users", Obj(<<P("name", S("Al"))>>)),
     P("authors", Obj(<<P("name", S("Bo")), P("authors_id", N("4"))>>)),
     P("x_authors", Obj(<<P("name", S("Cy")), P("authors_id", N("6"))>>)),
     P("user_settings", Obj(<<P("theme", S("dark"))>>)),
     P("info", Obj(<<P("x", N("1"))>>)),
     P("info", Obj(<<P("y", N("2")), P("x", N("3"))>>))}

ArrayFields ==
    {P(k, GenArray("scalars", n)) : k \in ScalarArrayKeys, n \in 0..MaxElems}
    \cup {P("items", GenArray(kind, n)) : kind \in ObjectArrayKinds, n \in 1..MaxElems}
    \cup {P("blog_posts", GenArray("objects", n)) : n \in 1..MaxElems}
    \cup {P("tags", Arr(<<S("x,y")>>)), P("list", Arr(<<Arr(<<S("a")>>)>>))}

Fields == ScalarFields \cup ObjectFields \cup ArrayFields

\* second fields of two-field documents
SecondFields ==
    ScalarFields \cup ObjectFields
    \cup {P("tags", GenArray("scalars", MaxElems)), P("items", GenArray("objects", 2))}

\* owners of a nested field
OwnerKeys == {"post", "user_settings", "blog_posts"}

\* documents with a repeated scalar key, with scalar arrays of one key under two
\* owners, with a column that has _id in its middle, with objects inside an
\* array of arrays, and with two objects of one key under two owners
DocRepeat == Obj(<<P("a", N("1")), P("a", S("z"))>>)
DocRepeatNull == Obj(<<P("a", N("1")), P("a", NullNode)>>)
DocRepeatElems ==
    Obj(<<P("items", Arr(<<Obj(<<P("a", N("1")), P("a", N("2"))>>),
                           Obj(<<P("a", N("3")), P("a", N("4"))>>)>>))>>)
DocRepeatNested == Obj(<<P("info", Obj(<<P("a", S("u")), P("b", N("0")), P("a", S("w"))>>))>>)
DocTwoTags ==
    Obj(<<P("post", Obj(<<P("tags", Arr(<<S("a")>>))>>)), P("tags", Arr(<<S("a"), S("b")>>))>>)
DocMidId == Obj(<<P("x_idab", N("1")), P("x_is", Obj(<<P("k", N("2"))>>))>>)
DocListOfLists == Obj(<<P("list", Arr(<<Arr(<<Obj(<<P("a", N("1"))>>)>>)>>))>>)
DocTwoInfos ==
    Obj(<<P("post", Obj(<<P("info", Obj(<<P("x", N("1"))>>))>>)),
          P("info", Obj(<<P("y", N("2")), P("x", N("3"))>>))>>)

MoreDocs ==
    {DocRepeat, DocRepeatNull, DocRepeatElems, DocRepeatNested, DocTwoTags, DocMidId,
     DocListOfLists, DocTwoInfos}

Docs ==
    {DocEmpty, DocMovie, DocTags, DocAuthor, DocQuote}
    \cup MoreDocs
    \cup {Obj(<<f>>) : f \in Fields}
    \cup {Obj(<<f1, f2>>) : f1 \in Fields, f2 \in SecondFields}
    \cup {Obj(<<P(k, Obj(<<f>>))>>) : k \in OwnerKeys, f \in Fields}
    \cup {GenArray(kind, n) : kind \in ObjectArrayKinds \cup {"scalars"}, n \in 0..MaxElems}
    \cup {S("a"), N("1"), NullNode}

\* argument vectors given to main
MainArgs == {<<>>, <<"--out-dir", "missing">>}

-----------------------------------------------------------------------------
(* main: the argument loop (lines 24-47).  The result is the exit status    *)
(* (-1: go on to parsing), out_dir and print_ast.                           *)

\* the argument loop taking --out-dir as a flag without a value
RECURSIVE ScanArgs_NoValue(_, _, _, _)
ScanArgs_NoValue(args, i, dir, pa) ==
    IF i > Len(args) THEN [status |-> -1, out_dir |-> dir, print_ast |-> pa]
    ELSE IF args[i] = "--print-ast" THEN ScanArgs_NoValue(args, i + 1, dir, TRUE)
    ELSE IF args[i] = "--out-dir"
         THEN IF i + 1 <= Len(args) THEN ScanArgs_NoValue(args, i + 1, args[i + 1], pa)
              ELSE [status |-> 1, out_dir |-> dir, print_ast |-> pa]
    ELSE [status |-> 1, out_dir |-> dir, print_ast |-> pa]

RECURSIVE ScanArgs(_, _, _, _)
ScanArgs(args, i, dir, pa) ==
    IF i > Len(args) THEN [status |-> -1, out_dir |-> dir, print_ast |-> pa]
    ELSE IF args[i] = "--print-ast" THEN ScanArgs(args, i + 1, dir, TRUE)
    ELSE IF args[i] = "--out-dir"
         THEN IF i + 1 <= Len(args) THEN ScanArgs(args, i + 2, args[i + 1], pa)
              ELSE [status |-> 1, out_dir |-> dir, print_ast |-> pa]
    ELSE [status |-> 1, out_dir |-> dir, print_ast |-> pa]

\* the test of main without the error flag
ParseFailed_ResultOnly(result, flag) == result # 0

\* main line 54: the test made on the result of yyparse
ParseFailed(result, flag) == result # 0 \/ flag

-----------------------------------------------------------------------------
(* The program *)

Init ==
    /\ argv \in MainArgs
    /\ doc \in Docs
    /\ streamingMode \in BOOLEAN
    /\ pc = "args"
    /\ out_dir = "."
    /\ print_ast = FALSE
    /\ errtok = FALSE
    /\ nerr = 0
    /\ has_syntax_error = FALSE
    /\ parse_result = -1
    /\ root = NoRoot
    /\ gen = NewGenerator
    /\ tableFiles = EmptyMap
    /\ disk = EmptyMap
    /\ lost = 0
    /\ exit_status = -1
    /\ qin = ""
    /\ qout = ""
    /\ blocked = {}
    /\ ast_out = ""
    /\ stdin_text = ""
    /\ input = ""
    /\ lineno = 1
    /\ column = 1
    /\ prev_column = 1
    /\ token = ""
    /\ diag = <<>>

\* main, lines 24-47
ParseArgs ==
    /\ pc = "args"
    /\ LET r == ScanArgs(argv, 1, ".", FALSE)
       IN  /\ out_dir' = r.out_dir
           /\ print_ast' = r.print_ast
           /\ IF r.status = 1
              THEN exit_status' = 1 /\ pc' = "done"
              ELSE exit_status' = exit_status /\ pc' = "parse"
    /\ UNCHANGED <<argv, doc, errtok, nerr, has_syntax_error, parse_result, root,
                   streamingMode, gen, tableFiles, disk, lost, qin, qout, blocked,
                   ast_out, scanVars>>

\* yyparse meets a token no production accepts: it calls yyerror and shifts the
\* error token
SyntaxError ==
    /\ pc \in {"parse", "reduced"}
    /\ ~errtok
    /\ nerr < MaxErrors
    /\ errtok' = TRUE
    /\ nerr' = nerr + 1
    /\ has_syntax_error' = TRUE
    /\ UNCHANGED <<argv, doc, pc, out_dir, parse_result, root, streamingMode, gen,
                   tableFiles, disk, lost, exit_status, print_ast, qin, qout, blocked,
                   ast_out, scanVars>>

\* the error productions of value, object, pairs, pair, array and elements:
\* each builds its node from what was parsed and sets the flag
RecoveryRules == {"value", "object", "pairs", "pair", "array", "elements"}

Recover ==
    /\ pc = "parse"
    /\ errtok
    /\ \E rule \in RecoveryRules :
          /\ has_syntax_error' = TRUE
          /\ errtok' = FALSE
    /\ UNCHANGED <<argv, doc, pc, out_dir, nerr, parse_result, root, streamingMode, gen,
                   tableFiles, disk, lost, exit_status, print_ast, qin, qout, blocked,
                   ast_out, scanVars>>

\* json: value (parser.y lines 55-60), reduced as soon as the value is complete
JsonValue ==
    /\ pc = "parse"
    /\ ~errtok
    /\ root' = doc
    /\ ast_out' = IF print_ast THEN ast_out \o ASTprint(doc) ELSE ast_out
    /\ pc' = "reduced"
    /\ UNCHANGED <<argv, doc, out_dir, errtok, nerr, has_syntax_error, parse_result,
                   streamingMode, gen, tableFiles, disk, lost, exit_status, print_ast,
                   qin, qout, blocked, scanVars>>

\* the end of the input follows the value: yyparse returns 0
Accept ==
    /\ pc = "reduced"
    /\ ~errtok
    /\ parse_result' = 0
    /\ pc' = "parsed"
    /\ UNCHANGED <<argv, doc, out_dir, errtok, nerr, has_syntax_error, root, streamingMode,
                   gen, tableFiles, disk, lost, exit_status, print_ast, qin, qout, blocked,
                   ast_out, scanVars>>

\* json: error (parser.y lines 61-67), which ends in YYABORT; it is the rule
\* reduced for an error at the top level, before the value or after it
JsonError ==
    /\ pc \in {"parse", "reduced"}
    /\ errtok
    /\ has_syntax_error' = TRUE
    /\ root' = ObjectNode(<<>>)
    /\ parse_result' = 1
    /\ errtok' = FALSE
    /\ pc' = "parsed"
    /\ UNCHANGED <<argv, doc, out_dir, nerr, streamingMode, gen, tableFiles, disk, lost,
                   exit_status, print_ast, qin, qout, blocked,
                   ast_out, scanVars>>

\* main, lines 53-57
MainCheck ==
    /\ pc = "parsed"
    /\ IF ParseFailed(parse_result, has_syntax_error)
       THEN exit_status' = 1 /\ pc' = "done"
       ELSE exit_status' = exit_status /\ pc' = "assign"
    /\ UNCHANGED <<argv, doc, out_dir, errtok, nerr, has_syntax_error, parse_result, root,
                   streamingMode, gen, tableFiles, disk, lost, print_ast, qin, qout, blocked,
                   ast_out, scanVars>>

\* main, line 60
AssignIds ==
    /\ pc = "assign"
    /\ root' = ASTassignIds(root)
    /\ pc' = "analyze"
    /\ UNCHANGED <<argv, doc, out_dir, errtok, nerr, has_syntax_error, parse_result,
                   streamingMode, gen, tableFiles, disk, lost, exit_status, print_ast,
                   qin, qout, blocked,
                   ast_out, scanVars>>

\* generateCSV, lines 126-130
Analyze ==
    /\ pc = "analyze"
    /\ LET r == analyzeAst(root, gen)
       IN  root' = r.node /\ gen' = r.g
    /\ pc' = "rename"
    /\ UNCHANGED <<argv, doc, out_dir, errtok, nerr, has_syntax_error, parse_result,
                   streamingMode, tableFiles, disk, lost, exit_status, print_ast, qin, qout, blocked,
                   ast_out, scanVars>>

\* generateCSV, line 133
Rename ==
    /\ pc = "rename"
    /\ gen' = renameTablesBasedOnContent(gen)
    /\ pc' = "relationships"
    /\ UNCHANGED <<argv, doc, out_dir, errtok, nerr, has_syntax_error, parse_result, root,
                   streamingMode, tableFiles, disk, lost, exit_status, print_ast, qin, qout, blocked,
                   ast_out, scanVars>>

\* relationship resolution followed at once by row generation
Relationships_SkipNormalize ==
    /\ pc = "relationships"
    /\ gen' = processRelationships(gen)
    /\ pc' = "rows"
    /\ UNCHANGED <<argv, doc, out_dir, errtok, nerr, has_syntax_error, parse_result, root,
                   streamingMode, tableFiles, disk, lost, exit_status, print_ast, qin, qout,
                   blocked, ast_out, scanVars>>

\* generateCSV, line 136
Relationships ==
    /\ pc = "relationships"
    /\ gen' = processRelationships(gen)
    /\ pc' = "normalize"
    /\ UNCHANGED <<argv, doc, out_dir, errtok, nerr, has_syntax_error, parse_result, root,
                   streamingMode, tableFiles, disk, lost, exit_status, print_ast, qin, qout, blocked,
                   ast_out, scanVars>>

\* generateCSV, lines 138-156
Normalize ==
    /\ pc = "normalize"
    /\ gen' = normalizeIdColumns(gen)
    /\ pc' = IF streamingMode THEN "open" ELSE "rows"
    /\ UNCHANGED <<argv, doc, out_dir, errtok, nerr, has_syntax_error, parse_result, root,
                   streamingMode, tableFiles, disk, lost, exit_status, print_ast, qin, qout, blocked,
                   ast_out, scanVars>>

\* the working state handed to the output operators
Working ==
    [tables |-> gen.tables, tableFiles |-> tableFiles, disk |-> disk, lost |-> lost,
     outputDir |-> out_dir, streamingMode |-> streamingMode, blocked |-> blocked]

\* generateCSV, lines 159-188
OpenFiles ==
    /\ pc = "open"
    /\ LET w == OpenStreams(SortedKeys(DOMAIN gen.tables), 1, Working)
       IN  tableFiles' = w.tableFiles /\ disk' = w.disk
    /\ pc' = "rows"
    /\ UNCHANGED <<argv, doc, out_dir, errtok, nerr, has_syntax_error, parse_result, root,
                   streamingMode, gen, lost, exit_status, print_ast, qin, qout, blocked,
                   ast_out, scanVars>>

\* generateCSV, line 191
GenerateRows ==
    /\ pc = "rows"
    /\ LET r == generateRowsFromAst(root, Working)
       IN  /\ root' = r.node
           /\ gen' = [gen EXCEPT !.tables = r.w.tables]
           /\ tableFiles' = r.w.tableFiles
           /\ disk' = r.w.disk
           /\ lost' = r.w.lost
    /\ pc' = IF streamingMode THEN "close" ELSE "flush"
    /\ UNCHANGED <<argv, doc, out_dir, errtok, nerr, has_syntax_error, parse_result,
                   streamingMode, exit_status, print_ast, qin, qout, blocked,
                   ast_out, scanVars>>

\* generateCSV, lines 194-234
Flush ==
    /\ pc = "flush"
    /\ disk' = FlushTables(SortedKeys(DOMAIN gen.tables), 1, Working).disk
    /\ pc' = "close"
    /\ UNCHANGED <<argv, doc, out_dir, errtok, nerr, has_syntax_error, parse_result, root,
                   streamingMode, gen, tableFiles, lost, exit_status, print_ast, qin, qout, blocked,
                   ast_out, scanVars>>

\* generateCSV, lines 237-241, and the return of main
Close ==
    /\ pc = "close"
    /\ exit_status' = 0
    /\ pc' = "done"
    /\ UNCHANGED <<argv, doc, out_dir, errtok, nerr, has_syntax_error, parse_result, root,
                   streamingMode, gen, tableFiles, disk, lost, print_ast, qin, qout, blocked,
                   ast_out, scanVars>>

Next ==
    \/ ParseArgs
    \/ SyntaxError
    \/ Recover
    \/ JsonValue
    \/ Accept
    \/ JsonError
    \/ MainCheck
    \/ AssignIds
    \/ Analyze
    \/ Rename
    \/ Relationships
    \/ Normalize
    \/ OpenFiles
    \/ GenerateRows
    \/ Flush
    \/ Close

Spec == Init /\ [][Next]_vars

-----------------------------------------------------------------------------
(* The scanner (part_001, lines 8-23 and 84-124) *)

\* the next character of the buffer, "" at its end
Peek(s, i) == IF i >= 1 /\ i <= Len(s) THEN Ch(s, i) ELSE ""

IsDigit(c) == c # "" /\ Contains(DigitChars, c)

\* update_column with the previous column taken after the advance
update_column_After(col, yyleng) == [prev_column |-> col + yyleng, column |-> col + yyleng]

\* update_column (lines 13-16)
update_column(col, yyleng) == [prev_column |-> col, column |-> col + yyleng]

\* update_line (lines 19-23)
update_line(line, col) == [lineno |-> line + 1, prev_column |-> col, column |-> 1]

\* {DIGIT}+ from position i: the number of digits there
RECURSIVE DigitsLen(_, _)
DigitsLen(s, i) == IF IsDigit(Peek(s, i)) THEN 1 + DigitsLen(s, i + 1) ELSE 0

\* {NUMBER} (lines 84-88): the length of the longest match at the start of s, 0 for none
NumberLen(s) ==
    LET sign == IF Peek(s, 1) = "-" THEN 1 ELSE 0
        int == DigitsLen(s, sign + 1)
        p == sign + int
        frac == IF Peek(s, p + 1) = "." /\ DigitsLen(s, p + 2) > 0
                THEN 1 + DigitsLen(s, p + 2) ELSE 0
        q == p + frac
        esign == IF Peek(s, q + 2) \in {"+", "-"} THEN 1 ELSE 0
        exp == IF Peek(s, q + 1) \in {"e", "E"} /\ DigitsLen(s, q + 2 + esign) > 0
               THEN 1 + esign + DigitsLen(s, q + 2 + esign) ELSE 0
    IN  IF int = 0 THEN 0 ELSE q + exp

\* the string rule (line 103), from position i inside the quotes: the position
\* of the closing quote, 0 when the text ends first
RECURSIVE StringEnd(_, _)
StringEnd(s, i) ==
    IF i > Len(s) THEN 0
    ELSE IF Ch(s, i) = "\"" THEN i
    ELSE IF Ch(s, i) = "\\"
         THEN IF Peek(s, i + 1) \notin {"", "\n"} THEN StringEnd(s, i + 2) ELSE 0
    ELSE StringEnd(s, i + 1)

StartsWith(s, word) == Len(s) >= Len(word) /\ SubSeq(s, 1, Len(word)) = word

\* one match of yylex at the start of a non-empty buffer: the rule and yyleng
yylex(s) ==
    LET c == Ch(s, 1)
    IN  CASE c \in {"\t", " ", "\r"} -> [token |-> "", len |-> 1]
          [] c = "\n" -> [token |-> "NEWLINE", len |-> 1]
          [] c \in {"{", "}", "[", "]", ":", ","} -> [token |-> c, len |-> 1]
          [] c = "\"" /\ StringEnd(s, 2) > 0 -> [token |-> "STRING", len |-> StringEnd(s, 2)]
          [] NumberLen(s) > 0 -> [token |-> "NUMBER", len |-> NumberLen(s)]
          [] StartsWith(s, "true") -> [token |-> "TRUE", len |-> 4]
          [] StartsWith(s, "false") -> [token |-> "FALSE", len |-> 5]
          [] StartsWith(s, "null") -> [token |-> "NUL", len |-> 4]
          [] OTHER -> [token |-> "ERROR", len |-> 1]

\* the message of the catch-all rule (lines 121-122)
Unexpected(c, line, col) ==
    "Error: Unexpected character '" \o c \o "' at line " \o to_string(line)
        \o ", column " \o to_string(col)

ScanChars == {"{", "}", "$", " ", "\n", "1", "-", "\""}

RECURSIVE TextsUpTo(_)
TextsUpTo(n) ==
    IF n = 0 THEN {""}
    ELSE TextsUpTo(n - 1) \cup {s \o c : s \in TextsUpTo(n - 1), c \in ScanChars}

ScanInputs == TextsUpTo(MaxInput) \cup {"{\"a\": tru$}", "-1.5e+2$", "\"a\\\"b\" \n x", "null\n\n  $"}

InitScan ==
    /\ stdin_text \in ScanInputs
    /\ input = stdin_text
    /\ lineno = 1
    /\ column = 1
    /\ prev_column = 1
    /\ token = ""
    /\ diag = <<>>
    /\ pc = "scan"
    /\ argv = <<>>
    /\ doc = DocEmpty
    /\ streamingMode = FALSE
    /\ blocked = {}
    /\ out_dir = "."
    /\ print_ast = FALSE
    /\ errtok = FALSE
    /\ nerr = 0
    /\ has_syntax_error = FALSE
    /\ parse_result = -1
    /\ root = NoRoot
    /\ gen = NewGenerator
    /\ tableFiles = EmptyMap
    /\ disk = EmptyMap
    /\ lost = 0
    /\ exit_status = -1
    /\ qin = ""
    /\ qout = ""
    /\ ast_out = ""

\* one rule of the scanner matches.  The token ERROR is in no production, so
\* the parser either calls yyerror for it or is still recovering from an
\* error that has set the flag already.
Lex ==
    /\ pc = "scan"
    /\ input # ""
    /\ LET m == yylex(input)
       IN  /\ input' = SubSeq(input, m.len + 1, Len(input))
           /\ token' = m.token
           /\ IF m.token = "NEWLINE"
              THEN LET u == update_line(lineno, column)
                   IN  lineno' = u.lineno /\ column' = u.column /\ prev_column' = u.prev_column
              ELSE LET u == update_column(column, m.len)
                   IN  lineno' = lineno /\ column' = u.column /\ prev_column' = u.prev_column
           /\ IF m.token = "ERROR"
              THEN /\ diag' = Append(diag, Unexpected(Ch(input, 1), lineno, prev_column'))
                   /\ has_syntax_error' = TRUE
              ELSE UNCHANGED <<diag, has_syntax_error>>
    /\ UNCHANGED <<argv, doc, pc, out_dir, errtok, nerr, parse_result, root, streamingMode,
                   gen, tableFiles, disk, lost, exit_status, print_ast, qin, qout, blocked,
                   ast_out, stdin_text>>

\* yyparse returns: 0 at the end of the text, 1 when it gives up (YYABORT, or
\* no recovery possible), which it can do before the end; the grammar may have
\* found syntax errors of its own
EndParse ==
    /\ pc = "scan"
    /\ \E result \in {0, 1}, syntax \in BOOLEAN :
          /\ input # "" => result = 1
          /\ parse_result' = result
          /\ has_syntax_error' = (has_syntax_error \/ syntax \/ result = 1)
    /\ pc' = "parsed"
    /\ UNCHANGED <<argv, doc, out_dir, errtok, nerr, root, streamingMode, gen, tableFiles,
                   disk, lost, exit_status, print_ast, qin, qout, blocked, ast_out, scanVars>>

NextScan == Lex \/ EndParse \/ MainCheck

SpecScan == InitScan /\ [][NextScan]_vars

-----------------------------------------------------------------------------
(* Runs over every short command line, with output files that cannot be created *)

ArgTokens == {"--print-ast", "--out-dir", "out", "x"}

RECURSIVE ArgVectors(_)
ArgVectors(n) ==
    IF n = 0 THEN {<<>>}
    ELSE ArgVectors(n - 1) \cup {Append(a, t) : a \in ArgVectors(n - 1), t \in ArgTokens}

EnvDocs == {DocEmpty, DocAuthor, DocTags, Obj(<<P("items", GenArray("objects", 2))>>)}

BlockedSets == {{}, {"root"}, {"author"}}

InitEnv ==
    /\ argv \in ArgVectors(MaxArgs)
    /\ doc \in EnvDocs
    /\ streamingMode \in BOOLEAN
    /\ blocked \in BlockedSets
    /\ pc = "args"
    /\ out_dir = "."
    /\ print_ast = FALSE
    /\ errtok = FALSE
    /\ nerr = 0
    /\ has_syntax_error = FALSE
    /\ parse_result = -1
    /\ root = NoRoot
    /\ gen = NewGenerator
    /\ tableFiles = EmptyMap
    /\ disk = EmptyMap
    /\ lost = 0
    /\ exit_status = -1
    /\ qin = ""
    /\ qout = ""
    /\ ast_out = ""
    /\ stdin_text = ""
    /\ input = ""
    /\ lineno = 1
    /\ column = 1
    /\ prev_column = 1
    /\ token = ""
    /\ diag = <<>>

SpecEnv == InitEnv /\ [][Next]_vars

-----------------------------------------------------------------------------
(* Direct calls of quoteCSVField *)

QuoteChars == {"a", " ", ",", "\"", "\n"}

RECURSIVE StringsUpTo(_)
StringsUpTo(n) ==
    IF n = 0 THEN {""}
    ELSE StringsUpTo(n - 1) \cup {s \o c : s \in StringsUpTo(n - 1), c \in QuoteChars}

QuoteInputs == StringsUpTo(MaxStrLen) \cup {"He said, \"hi\"", "  a,\"\"  "}

InitQuote ==
    /\ qin \in QuoteInputs
    /\ qout = ""
    /\ pc = "quote"
    /\ argv = <<>>
    /\ doc = DocEmpty
    /\ streamingMode = FALSE
    /\ out_dir = "."
    /\ print_ast = FALSE
    /\ errtok = FALSE
    /\ nerr = 0
    /\ has_syntax_error = FALSE
    /\ parse_result = -1
    /\ root = NoRoot
    /\ gen = NewGenerator
    /\ tableFiles = EmptyMap
    /\ disk = EmptyMap
    /\ lost = 0
    /\ exit_status = -1
    /\ blocked = {}
    /\ ast_out = ""
    /\ stdin_text = ""
    /\ input = ""
    /\ lineno = 1
    /\ column = 1
    /\ prev_column = 1
    /\ token = ""
    /\ diag = <<>>

CallQuote ==
    /\ pc = "quote"
    /\ qout' = quoteCSVField(qin)
    /\ pc' = "quoted"
    /\ UNCHANGED <<argv, doc, out_dir, errtok, nerr, has_syntax_error, parse_result, root,
                   streamingMode, gen, tableFiles, disk, lost, exit_status, print_ast, qin, blocked,
                   ast_out, scanVars>>

NextQuote == CallQuote

SpecQuote == InitQuote /\ [][NextQuote]_vars

-----------------------------------------------------------------------------
(* Direct calls of single functions: everything but the function's argument, *)
(* its result and the position is as in an idle program.                     *)

DirectCall ==
    /\ argv = <<>>
    /\ doc = DocEmpty
    /\ out_dir = "."
    /\ print_ast = FALSE
    /\ errtok = FALSE
    /\ nerr = 0
    /\ has_syntax_error = FALSE
    /\ parse_result = -1
    /\ root = NoRoot
    /\ tableFiles = EmptyMap
    /\ disk = EmptyMap
    /\ lost = 0
    /\ exit_status = -1
    /\ blocked = {}
    /\ ast_out = ""
    /\ stdin_text = ""
    /\ input = ""
    /\ lineno = 1
    /\ column = 1
    /\ prev_column = 1
    /\ token = ""
    /\ diag = <<>>

-----------------------------------------------------------------------------
(* The id column loop of generateCSV (lines 138-156) on any short column    *)
(* list: the generator holds one table t with the columns qin.              *)

ColumnNames == {"id", "root_id", "a", "b_id"}

ColumnLists(n) == UNION {[1..k -> ColumnNames] : k \in 0..n}

InitNorm ==
    /\ DirectCall
    /\ qin \in ColumnLists(MaxColumns)
    /\ qout = ""
    /\ pc = "normalize"
    /\ streamingMode \in BOOLEAN
    /\ gen = [NewGenerator EXCEPT !.tables = Put(EmptyMap, "t", TableSchema("t", qin))]

NextNorm == Normalize

SpecNorm == InitNorm /\ [][NextNorm]_vars

-----------------------------------------------------------------------------
(* Direct calls of getSingularForm, once and then on its own result *)

SingularChars == {"s", "e", "a", "S"}

RECURSIVE NamesUpTo(_)
NamesUpTo(n) ==
    IF n = 0 THEN {""}
    ELSE NamesUpTo(n - 1) \cup {s \o c : s \in NamesUpTo(n - 1), c \in SingularChars}

SingularInputs == NamesUpTo(MaxStrLen) \cup {"entities", "users", "class", "user_settings"}

InitSingular ==
    /\ DirectCall
    /\ qin \in SingularInputs
    /\ qout = ""
    /\ pc = "singular"
    /\ streamingMode = FALSE
    /\ gen = NewGenerator

CallSingular ==
    /\ pc = "singular"
    /\ qout' = getSingularForm(qin)
    /\ pc' = "singular1"
    /\ UNCHANGED <<argv, doc, out_dir, errtok, nerr, has_syntax_error, parse_result, root,
                   streamingMode, gen, tableFiles, disk, lost, exit_status, print_ast, qin, blocked,
                   ast_out, scanVars>>

CallSingularAgain ==
    /\ pc = "singular1"
    /\ qout' = getSingularForm(qout)
    /\ pc' = "singular2"
    /\ UNCHANGED <<argv, doc, out_dir, errtok, nerr, has_syntax_error, parse_result, root,
                   streamingMode, gen, tableFiles, disk, lost, exit_status, print_ast, qin, blocked,
                   ast_out, scanVars>>

NextSingular == CallSingular \/ CallSingularAgain

SpecSingular == InitSingular /\ [][NextSingular]_vars

-----------------------------------------------------------------------------
(* The scanner's process_string (part_001, lines 26-78).  yytext is the      *)
(* matched token with both quotes; the result is the sequence of the bytes   *)
(* of the decoded std::string.                                               *)

\* the byte of a character of the input (ASCII; the characters of the generated
\* tokens, any other one is taken as an underscore)
CharCode(c) ==
    IF Contains(DigitChars, c) THEN 47 + Find(DigitChars, c)
    ELSE IF Contains(UpperChars, c) THEN 64 + Find(UpperChars, c)
    ELSE IF Contains(LowerChars, c) THEN 96 + Find(LowerChars, c)
    ELSE IF c = "\t" THEN 9
    ELSE IF c = "\n" THEN 10
    ELSE IF c = "\f" THEN 12
    ELSE IF c = "\r" THEN 13
    ELSE IF c = " " THEN 32
    ELSE IF c = "\"" THEN 34
    ELSE IF c = "+" THEN 43
    ELSE IF c = "-" THEN 45
    ELSE IF c = "/" THEN 47
    ELSE IF c = "?" THEN 63
    ELSE IF c = "\\" THEN 92
    ELSE 95

\* lines 40-47 and 71: the byte a one-character escape stands for
EscapeCode(c) ==
    IF c = "n" THEN 10
    ELSE IF c = "r" THEN 13
    ELSE IF c = "t" THEN 9
    ELSE IF c = "b" THEN 8
    ELSE IF c = "f" THEN 12
    ELSE CharCode(c)

\* the operators >>, & and | on int, for the non-negative values they are used on
RECURSIVE Pow2(_)
Pow2(k) == IF k = 0 THEN 1 ELSE 2 * Pow2(k - 1)

ShiftRight(a, k) == a \div Pow2(k)

RECURSIVE BitAnd(_, _)
BitAnd(a, b) ==
    IF a = 0 \/ b = 0 THEN 0
    ELSE (a % 2) * (b % 2) + 2 * BitAnd(a \div 2, b \div 2)

RECURSIVE BitOr(_, _)
BitOr(a, b) ==
    IF a = 0 THEN b
    ELSE IF b = 0 THEN a
    ELSE (IF a % 2 = 1 \/ b % 2 = 1 THEN 1 ELSE 0) + 2 * BitOr(a \div 2, b \div 2)

\* static_cast<char>(int), kept as the byte stored in the string
ToByte(n) == n % 256

HexDigits == "0123456789abcdef"

\* the value of a hexadecimal digit, -1 for any other character
HexDigitValue(c) ==
    IF Len(c) # 1 THEN -1
    ELSE IF Contains(HexDigits, ToLowerChar(c)) THEN Find(HexDigits, ToLowerChar(c)) - 1
    ELSE -1

\* strtol(hex, nullptr, 16): white space, an optional sign, an optional 0x before
\* a digit, then the longest run of hexadecimal digits (0 when there is none)
RECURSIVE SkipSpaces(_, _)
SkipSpaces(hex, i) == IF IsSpace(Peek(hex, i)) THEN SkipSpaces(hex, i + 1) ELSE i

RECURSIVE HexRun(_, _, _)
HexRun(hex, i, acc) ==
    IF HexDigitValue(Peek(hex, i)) < 0 THEN acc
    ELSE HexRun(hex, i + 1, 16 * acc + HexDigitValue(Peek(hex, i)))

strtol16(hex) ==
    LET i0 == SkipSpaces(hex, 1)
        i1 == IF Peek(hex, i0) \in {"-", "+"} THEN i0 + 1 ELSE i0
        i2 == IF Peek(hex, i1) = "0" /\ Peek(hex, i1 + 1) \in {"x", "X"}
                 /\ HexDigitValue(Peek(hex, i1 + 2)) >= 0
              THEN i1 + 2 ELSE i1
        magnitude == HexRun(hex, i2, 0)
    IN  IF Peek(hex, i0) = "-" THEN 0 - magnitude ELSE magnitude

\* lines 55-65: the bytes appended for one code
EncodeCode(code) ==
    IF code <= 127 THEN <<ToByte(code)>>
    ELSE IF code <= 2047
    THEN <<ToByte(BitOr(192, ShiftRight(code, 6))), ToByte(BitOr(128, BitAnd(code, 63)))>>
    ELSE <<ToByte(BitOr(224, ShiftRight(code, 12))),
           ToByte(BitOr(128, BitAnd(ShiftRight(code, 6), 63))),
           ToByte(BitOr(128, BitAnd(code, 63)))>>

\* the loop with a \u escape decoded only when five characters follow the u
RECURSIVE ProcessFrom_FiveNeeded(_, _)
ProcessFrom_FiveNeeded(yytext, p) ==
    IF p >= Len(yytext) THEN <<>>
    ELSE IF Ch(yytext, p) # "\\" THEN <<CharCode(Ch(yytext, p))>> \o ProcessFrom_FiveNeeded(yytext, p + 1)
    ELSE IF p + 1 >= Len(yytext) THEN <<>>
    ELSE IF Ch(yytext, p + 1) # "u"
    THEN <<EscapeCode(Ch(yytext, p + 1))>> \o ProcessFrom_FiveNeeded(yytext, p + 2)
    ELSE IF p + 1 + 5 >= Len(yytext) THEN <<CharCode("?")>> \o ProcessFrom_FiveNeeded(yytext, p + 2)
    ELSE EncodeCode(strtol16(SubSeq(yytext, p + 2, p + 5))) \o ProcessFrom_FiveNeeded(yytext, p + 6)

\* lines 33-75: the loop from position p on (1-based; end is the position of the
\* closing quote, Len(yytext))
RECURSIVE ProcessFrom(_, _)
ProcessFrom(yytext, p) ==
    IF p >= Len(yytext) THEN <<>>
    ELSE IF Ch(yytext, p) # "\\" THEN <<CharCode(Ch(yytext, p))>> \o ProcessFrom(yytext, p + 1)
    ELSE IF p + 1 >= Len(yytext) THEN <<>>
    ELSE IF Ch(yytext, p + 1) # "u"
    THEN <<EscapeCode(Ch(yytext, p + 1))>> \o ProcessFrom(yytext, p + 2)
    ELSE IF p + 1 + 4 >= Len(yytext) THEN <<CharCode("?")>> \o ProcessFrom(yytext, p + 2)
    ELSE EncodeCode(strtol16(SubSeq(yytext, p + 2, p + 5))) \o ProcessFrom(yytext, p + 6)

process_string(yytext) == ProcessFrom(yytext, 2)

\* string tokens: complete \uXXXX escapes, escapes cut short by the closing
\* quote, and a few tokens with other characters around or inside the escape
UnitDigits == {"0", "7", "8", "F"}

RECURSIVE DigitRuns(_)
DigitRuns(n) == IF n = 0 THEN {""} ELSE {s \o c : s \in DigitRuns(n - 1), c \in UnitDigits}

RECURSIVE UnitsUpTo(_)
UnitsUpTo(n) ==
    IF n = 0 THEN {""}
    ELSE UnitsUpTo(n - 1) \cup {s \o "\\u" \o h : s \in UnitsUpTo(n - 1), h \in DigitRuns(4)}

StringInputs ==
    {"\"" \o s \o "\"" : s \in UnitsUpTo(MaxUnits)}
    \cup {"\"\\u" \o h \o "\"" : h \in DigitRuns(0) \cup DigitRuns(1) \cup DigitRuns(2) \cup DigitRuns(3)}
    \cup {"\"\\uD83D\\uDE00\"", "\"a\\u00e9b\\n\"", "\"\\u00G1\"", "\"\\u-001\"", "\"\\u0x1F\"",
          "\"\\u12\\\"\"", "\"x\\u41\"", "\"\\\\u0041\""}

InitString ==
    /\ DirectCall
    /\ qin \in StringInputs
    /\ qout = <<>>
    /\ pc = "string"
    /\ streamingMode = FALSE
    /\ gen = NewGenerator

\* the action of the string rule (lines 103-107)
CallProcessString ==
    /\ pc = "string"
    /\ qout' = process_string(qin)
    /\ pc' = "stringed"
    /\ UNCHANGED <<argv, doc, out_dir, errtok, nerr, has_syntax_error, parse_result, root,
                   streamingMode, gen, tableFiles, disk, lost, exit_status, print_ast, qin, blocked,
                   ast_out, scanVars>>

NextString == CallProcessString

SpecString == InitString /\ [][NextString]_vars

-----------------------------------------------------------------------------
(* Properties *)

Started == pc \notin {"args", "parse", "reduced", "parsed", "quote", "quoted"}
Finished == pc = "done" /\ exit_status = 0
\* main always builds the generator in batch mode
BatchDone == Finished /\ ~streamingMode
AfterRename == pc \in {"relationships", "normalize", "open", "rows", "flush", "close"} \/ Finished

NeedsQuoting(text) == \E i \in 1..Len(text) : Ch(text, i) \in {",", "\"", "\n"}

\* text is wrapped in double quotes and encodes plain: every double quote of plain
\* appears twice, every other character once
RECURSIVE EncodesInner(_, _)
EncodesInner(inner, plain) ==
    IF Len(plain) = 0 THEN Len(inner) = 0
    ELSE IF Ch(plain, 1) = "\""
    THEN Len(inner) >= 2 /\ SubSeq(inner, 1, 2) = "\"\""
         /\ EncodesInner(SubSeq(inner, 3, Len(inner)), SubSeq(plain, 2, Len(plain)))
    ELSE Len(inner) >= 1 /\ Ch(inner, 1) = Ch(plain, 1)
         /\ EncodesInner(SubSeq(inner, 2, Len(inner)), SubSeq(plain, 2, Len(plain)))

IsQuotedFormOf(text, plain) ==
    /\ Len(text) >= 2
    /\ Ch(text, 1) = "\""
    /\ Ch(text, Len(text)) = "\""
    /\ EncodesInner(SubSeq(text, 2, Len(text) - 1), plain)

\* t is str without its leading and trailing whitespace
IsTrimOf(t, str) ==
    \E i \in 1..(Len(str) + 1) : \E j \in 0..Len(str) :
        /\ \A k \in 1..(i - 1) : IsSpace(Ch(str, k))
        /\ \A k \in (j + 1)..Len(str) : IsSpace(Ch(str, k))
        /\ t = SubSeq(str, i, j)
        /\ (Len(t) > 0 => ~IsSpace(Ch(t, 1)) /\ ~IsSpace(Ch(t, Len(t))))

\* C2: a non-zero result of yyparse or a raised syntax-error flag (also one raised
\* by a locally recovered production) makes the process exit with status 1
\* before identifiers are assigned, and no table, file handle or file exists.
C2_ParseErrorStopsBeforeGeneration ==
    (pc \notin {"args", "parse", "reduced", "parsed"} /\ (parse_result > 0 \/ has_syntax_error))
        => /\ pc = "done"
           /\ exit_status = 1
           /\ (root.type = "OBJECT" => root.id = -1 /\ root.tableName = "")
           /\ gen = NewGenerator
           /\ tableFiles = EmptyMap
           /\ disk = EmptyMap

\* a recovered syntax error: yyparse returned 0 with the flag raised
C2_Witness ==
    pc = "done" /\ parse_result = 0 /\ has_syntax_error /\ exit_status = 1 /\ nerr = 2

\* C6: after the renaming phase the root table is named after its first column,
\* lower-cased, that is neither id nor contains _id, plus "s"; entities when
\* there is no such column; the movie example gives movies with one row.
C6_RootTableName ==
    (AfterRename /\ "root" \in DOMAIN gen.tables) =>
        LET schema == gen.tables["root"]
            eligible == {i \in 1..Len(schema.columns) :
                            /\ ToLower(schema.columns[i]) # "id"
                            /\ ~Contains(ToLower(schema.columns[i]), "_id")}
        IN  /\ (eligible = {} => schema.name = "entities")
            /\ \A i \in eligible :
                  (\A j \in eligible : i <= j) => schema.name = ToLower(schema.columns[i]) \o "s"
            /\ (doc = DocMovie /\ BatchDone =>
                  /\ schema.name = "movies"
                  /\ schema.columns = <<"id", "movie", "year">>
                  /\ schema.rows = << <<"1", "Inception", "2010">> >>)

C6_Witness ==
    /\ BatchDone
    /\ doc = DocMovie
    /\ gen.tables["root"].name = "movies"
    /\ gen.tables["root"].rows = << <<"1", "Inception", "2010">> >>

\* C8: quoteCSVField trims the field, then wraps the trimmed text in double
\* quotes with every embedded double quote doubled iff it contains a comma, a
\* double quote or a newline, and returns the trimmed text unchanged otherwise.
C8_QuoteCSVField ==
    pc = "quoted" =>
        /\ \A t \in {SubSeq(qin, i, j) : i \in 1..(Len(qin) + 1), j \in 0..Len(qin)} :
              IsTrimOf(t, qin) =>
                  IF NeedsQuoting(t) THEN IsQuotedFormOf(qout, t) ELSE qout = t
        /\ \E t \in {SubSeq(qin, i, j) : i \in 1..(Len(qin) + 1), j \in 0..Len(qin)} :
              IsTrimOf(t, qin)
        /\ (qin = "He said, \"hi\"" => qout = "\"He said, \"\"hi\"\"\"")

C8_Witness ==
    pc = "quoted" /\ qin = "He said, \"hi\"" /\ qout = "\"He said, \"\"hi\"\"\""

-----------------------------------------------------------------------------
(* The objects and arrays of a tree, and the rows of a table *)

RECURSIVE NodesOf(_)
NodesOf(n) ==
    IF n.type = "OBJECT"
    THEN {n} \cup UNION {NodesOf(n.pairs[i].value) : i \in 1..Len(n.pairs)}
    ELSE IF n.type = "ARRAY"
    THEN {n} \cup UNION {NodesOf(n.elements[i]) : i \in 1..Len(n.elements)}
    ELSE {}

ObjectsOf(n) == {x \in NodesOf(n) : x.type = "OBJECT"}
ScalarArraysOf(n) == {x \in NodesOf(n) : x.type = "ARRAY" /\ isArrayOfScalars(x)}
ObjectArraysOf(n) == {x \in NodesOf(n) : x.type = "ARRAY" /\ isArrayOfObjects(x)}

\* the field of a row under a column name ("?" when the table has no such column)
FieldOf(schema, row, col) ==
    IF IndexOf(schema.columns, col) = 0 THEN "?" ELSE row[IndexOf(schema.columns, col)]

IsForeignKeyName(col) ==
    Len(col) > 3 /\ SubSeq(col, Len(col) - 2, Len(col)) = "_id"

\* C1: every table is written to <outDir>/<final table name>.csv and to no other
\* file; the document {} gives the single file entities.csv with header id and
\* one row 1.
C1_FilesNamedByFinalName ==
    (BatchDone /\ CanOpen(out_dir)) =>
        /\ DOMAIN disk = {FileName(out_dir, gen.tables[k].name) : k \in DOMAIN gen.tables}
        /\ (doc = DocEmpty => disk = (FileName(out_dir, "entities") :> <<"id", "1">>))

\* C3: every array-of-scalars field, whatever its key, gets one row per element
\* in its table, with id = position from 1, seq = position from 0, the parent
\* foreign key = the owner's id and value = the element's formatted scalar.
C3_ScalarArrayRows ==
    BatchDone =>
        \A arr \in ScalarArraysOf(root) :
            arr.parentKey # "" =>
                LET key == trimString(arr.parentKey)
                    feeding == {a \in ScalarArraysOf(root) : trimString(a.parentKey) = key}
                IN  /\ key \in DOMAIN gen.tables
                    /\ (Cardinality(feeding) = 1 =>
                            Len(gen.tables[key].rows) = Len(arr.elements))
                    /\ \A i \in 1..Len(arr.elements) :
                          \E r \in 1..Len(gen.tables[key].rows) :
                             LET schema == gen.tables[key]
                                 row == schema.rows[r]
                             IN  /\ FieldOf(schema, row, "id") = to_string(i)
                                 /\ FieldOf(schema, row, "seq") = to_string(i - 1)
                                 /\ FieldOf(schema, row, "value") = ObjectFieldValue(arr.elements[i])
                                 /\ \E c \in 1..Len(schema.columns) :
                                       /\ IsForeignKeyName(schema.columns[c])
                                       /\ row[c] = to_string(arr.parentId)

\* C4: a scalar-array table owned by the root object has the columns id,
\* <singular(final root table name)>_id, seq, value, and every row holds the
\* root object's id in that foreign key; {"tags":["a","b","c"]} gives columns
\* id, entitie_id, seq, value and rows 1,1,0,a / 2,1,1,b / 3,1,2,c.
C4_RootScalarArrayForeignKey ==
    (BatchDone /\ root.type = "OBJECT") =>
        /\ \A i \in 1..Len(root.pairs) :
              (root.pairs[i].value.type = "ARRAY" /\ isArrayOfScalars(root.pairs[i].value)) =>
                  LET schema == gen.tables[trimString(root.pairs[i].key)]
                      fk == getSingularForm(gen.tables["root"].name) \o "_id"
                  IN  /\ schema.columns = <<"id", fk, "seq", "value">>
                      /\ \A r \in 1..Len(schema.rows) :
                            FieldOf(schema, schema.rows[r], fk) = to_string(root.id)
        /\ (doc = DocTags =>
              /\ gen.tables["tags"].columns = <<"id", "entitie_id", "seq", "value">>
              /\ gen.tables["tags"].rows = << <<"1", "1", "0", "a">>, <<"2", "1", "1", "b">>,
                                              <<"3", "1", "2", "c">> >>)

\* C5: for every object-valued pair of any object the parent's table has the
\* column <singular(child table name)>_id (by the child's final name or by its
\* key) and the parent's row holds the child's id in it, and the child's table
\* has no column pointing back to the parent; {"author":{"name":"Bob"}} gives
\* root columns id, author_id with row 1, 2 and author columns id, name with
\* row 2, Bob.
C5_NestedObjectForeignKey ==
    BatchDone =>
        /\ \A obj \in ObjectsOf(root) : \A i \in 1..Len(obj.pairs) :
              obj.pairs[i].value.type = "OBJECT" =>
                  LET child == obj.pairs[i].value
                      pt == gen.tables[obj.tableName]
                      ct == gen.tables[child.tableName]
                      fks == {getSingularForm(ct.name) \o "_id",
                              getSingularForm(child.tableName) \o "_id"}
                      back == {getSingularForm(pt.name) \o "_id",
                               getSingularForm(obj.tableName) \o "_id"}
                  IN  /\ \E c \in 1..Len(pt.columns) : \E r \in 1..Len(pt.rows) :
                            /\ pt.columns[c] \in fks
                            /\ FieldOf(pt, pt.rows[r], "id") = to_string(obj.id)
                            /\ pt.rows[r][c] = to_string(child.id)
                      /\ \A c \in 1..Len(ct.columns) : ct.columns[c] \notin back
        /\ (doc = DocAuthor =>
              /\ gen.tables["root"].columns = <<"id", "author_id">>
              /\ gen.tables["root"].rows = << <<"1", "2">> >>
              /\ gen.tables["author"].columns = <<"id", "name">>
              /\ gen.tables["author"].rows = << <<"2", "Bob">> >>)

\* the keys that are scalar-valued in some element, in first-seen order
RECURSIVE FirstSeenScalarKeys(_, _)
FirstSeenScalarKeys(elements, seen) ==
    IF Len(elements) = 0 THEN seen
    ELSE FirstSeenScalarKeys(Tail(elements), UnionColumns(seen, elements[1].pairs))

\* C7: for every array of objects the child table's columns after the prefix
\* id, parent foreign key, seq contain every key that is scalar-valued in some
\* element, exactly once and in first-seen order, and an element without a
\* scalar value for such a column has an empty field there.
C7_ObjectArrayColumnUnion ==
    BatchDone =>
        \A arr \in {a \in ObjectArraysOf(root) : a.parentKey # ""} :
            LET key == trimString(arr.parentKey)
                schema == gen.tables[key]
                rest == SubSeq(schema.columns, IndexOf(schema.columns, "seq") + 1,
                               Len(schema.columns))
                keys == FirstSeenScalarKeys(arr.elements, <<>>)
            IN  /\ \A k \in 1..Len(keys) :
                      Cardinality({c \in 1..Len(rest) : rest[c] = keys[k]}) = 1
                /\ \A k1 \in 1..Len(keys) : \A k2 \in 1..Len(keys) :
                      k1 < k2 => IndexOf(rest, keys[k1]) < IndexOf(rest, keys[k2])
                /\ \A e \in 1..Len(arr.elements) : \A k \in 1..Len(keys) :
                      (\A p \in 1..Len(arr.elements[e].pairs) :
                            trimString(arr.elements[e].pairs[p].key) = keys[k]
                                => arr.elements[e].pairs[p].value.type \in {"OBJECT", "ARRAY"})
                      => \A r \in 1..Len(schema.rows) :
                            FieldOf(schema, schema.rows[r], "id") = to_string(arr.elements[e].id)
                                => FieldOf(schema, schema.rows[r], keys[k]) = ""

\* a field wrapped in double quotes whose inner double quotes come in pairs
RECURSIVE QuotesPaired(_)
QuotesPaired(inner) ==
    IF Len(inner) = 0 THEN TRUE
    ELSE IF Ch(inner, 1) = "\""
    THEN Len(inner) >= 2 /\ Ch(inner, 2) = "\"" /\ QuotesPaired(SubSeq(inner, 3, Len(inner)))
    ELSE QuotesPaired(SubSeq(inner, 2, Len(inner)))

IsQuotedField(text) ==
    /\ Len(text) >= 2
    /\ Ch(text, 1) = "\""
    /\ Ch(text, Len(text)) = "\""
    /\ QuotesPaired(SubSeq(text, 2, Len(text) - 1))

\* C9: in every written line, every field that contains a comma, a double quote
\* or a newline is wrapped in double quotes with its embedded quotes doubled,
\* for object fields and for the value column of scalar arrays alike.
C9_WrittenFieldsQuoted ==
    (BatchDone /\ CanOpen(out_dir)) =>
        \A k \in DOMAIN gen.tables :
            /\ FileName(out_dir, k) \in DOMAIN disk
            /\ disk[FileName(out_dir, k)] =
                   <<CsvLine(gen.tables[k].columns)>> \o
                   [r \in 1..Len(gen.tables[k].rows) |-> CsvLine(gen.tables[k].rows[r])]
            /\ \A r \in 1..Len(gen.tables[k].rows) : \A c \in 1..Len(gen.tables[k].rows[r]) :
                  NeedsQuoting(gen.tables[k].rows[r][c]) => IsQuotedField(gen.tables[k].rows[r][c])

\* the tables that match a wanted name by internal key or by renamed name
Matching(g, wanted) == {k \in DOMAIN g.tables : k = wanted \/ g.tables[k].name = wanted}

\* the first key of a non-empty set in the map's order
FirstKey(keys) == CHOOSE k \in keys : \A j \in keys : j = k \/ StrLess(k, j)

Range(seq) == {seq[i] : i \in 1..Len(seq)}

MergeStep ==
    (pc = "relationships" /\ pc' = "normalize"
        /\ Matching(gen, "users") # {} /\ Matching(gen, "authors") # {}) =>
        LET A == FirstKey(Matching(gen, "authors"))
            U == FirstKey(Matching(gen, "users"))
        IN  /\ DOMAIN gen'.tables = DOMAIN gen.tables
            /\ \A k \in DOMAIN gen.tables :
                  LET before == RenameParentId(k, gen.tables[k].columns)
                      after == gen'.tables[k].columns
                  IN  /\ Len(after) = Len(before)
                      /\ \A i \in 1..Len(before) :
                            after[i] = IF before[i] = A \o "_id" THEN U \o "_id" ELSE before[i]
                      /\ gen'.tables[k].name = gen.tables[k].name
                      /\ gen'.tables[k].rows = gen.tables[k].rows
            /\ gen'.mergedTables = gen.mergedTables \cup {A}
            /\ Len(getTableNames(gen')) = Cardinality(DOMAIN gen.tables \ {A})
            /\ \A k \in DOMAIN gen.tables \ {A} : gen.tables[k].name \in Range(getTableNames(gen'))
            /\ (\A k \in DOMAIN gen.tables \ {A} : gen.tables[k].name # gen.tables[A].name)
                  => gen.tables[A].name \notin Range(getTableNames(gen'))

\* the end of a batch run: a merged table has its file, named by its key, with
\* its header and its rows
MergedWritten ==
    (pc # "done" /\ pc' = "done" /\ exit_status' = 0 /\ ~streamingMode /\ CanOpen(out_dir)) =>
        \A A \in gen'.mergedTables :
            /\ FileName(out_dir, A) \in DOMAIN disk'
            /\ disk'[FileName(out_dir, A)] =
                   <<CsvLine(gen'.tables[A].columns)>> \o
                   [r \in 1..Len(gen'.tables[A].rows) |-> CsvLine(gen'.tables[A].rows[r])]

C11_OpenFailureSkipped ==
    (pc = "done" /\ parse_result = 0 /\ ~has_syntax_error) =>
        /\ exit_status = 0
        /\ \A k \in DOMAIN gen.tables :
              IF CanOpen(out_dir) /\ k \notin blocked
              THEN /\ FileName(out_dir, k) \in DOMAIN disk
                   /\ Len(disk[FileName(out_dir, k)]) >= 1
                   /\ disk[FileName(out_dir, k)][1] = CsvLine(gen.tables[k].columns)
                   /\ ~streamingMode =>
                         disk[FileName(out_dir, k)] =
                             <<CsvLine(gen.tables[k].columns)>> \o
                             [r \in 1..Len(gen.tables[k].rows) |-> CsvLine(gen.tables[k].rows[r])]
              ELSE FileName(out_dir, k) \notin DOMAIN disk
        /\ ~CanOpen(out_dir) => disk = EmptyMap

C11_Witness ==
    /\ pc = "done" /\ exit_status = 0 /\ ~streamingMode
    /\ blocked = {"root"} /\ doc = DocTags /\ out_dir = "out"
    /\ DOMAIN disk = {"out/tags.csv"}
    /\ Len(disk["out/tags.csv"]) = 4

\* the positions of argv at which the loop of main reads an option: the first
\* one, the one after an option without value, the second after --out-dir
OptionAt[i \in 1..(MaxArgs + 2)] ==
    IF i = 1 THEN TRUE
    ELSE \/ (i - 1 <= Len(argv) /\ OptionAt[i - 1] /\ argv[i - 1] # "--out-dir")
         \/ (i > 2 /\ i - 2 <= Len(argv) /\ OptionAt[i - 2] /\ argv[i - 2] = "--out-dir")

OptionPositions == {i \in 1..Len(argv) : OptionAt[i]}

BadArguments ==
    \E i \in OptionPositions :
        \/ argv[i] \notin {"--print-ast", "--out-dir"}
        \/ (argv[i] = "--out-dir" /\ i = Len(argv))

\* C12: once the arguments are scanned, if some option is neither --print-ast
\* nor --out-dir, or --out-dir is the last token, the run is over with status 1
\* and nothing was parsed or written; otherwise out_dir is the value of the last
\* --out-dir ("." without one) and print_ast tells whether --print-ast was given.
C12_ArgumentScan ==
    pc # "args" =>
        IF BadArguments
        THEN /\ pc = "done" /\ exit_status = 1
             /\ root = NoRoot /\ parse_result = -1 /\ nerr = 0 /\ ~has_syntax_error
             /\ ast_out = "" /\ gen = NewGenerator /\ disk = EmptyMap
        ELSE LET dirs == {i \in OptionPositions : argv[i] = "--out-dir"}
             IN  /\ out_dir = IF dirs = {} THEN "."
                              ELSE argv[(CHOOSE i \in dirs : \A j \in dirs : j <= i) + 1]
                 /\ print_ast = (\E i \in OptionPositions : argv[i] = "--print-ast")
                 /\ (pc = "done" => parse_result # -1)

C12_Witness ==
    /\ argv = <<"--out-dir", "--print-ast", "--out-dir">>
    /\ pc = "done" /\ exit_status = 1 /\ root = NoRoot /\ ~print_ast

\* C13: the tree is printed when json: value is reduced, before the check of
\* main and before the ids are assigned: what is printed is the tree as built,
\* it is printed even when a recovered syntax error makes the run end with
\* status 1, and no printed line has a (Table: ..., ID: ...) annotation.
C13_PrintAtReduction ==
    /\ ast_out \in {"", ASTprint(doc)}
    /\ (pc \in {"args", "parse"} \/ ~print_ast) => ast_out = ""
    /\ (print_ast /\ (pc = "reduced" \/ parse_result = 0)) => ast_out = ASTprint(doc)
    /\ ~Contains(ast_out, "(Table: ") /\ ~Contains(ast_out, ", ID: ")
    /\ (doc = DocAuthor /\ ast_out # "") =>
          ast_out = "OBJECT {\n  \"author\":   OBJECT {\n    \"name\": STRING \"Bob\"\n  }\n}\n"

C13_Witness ==
    /\ pc = "done" /\ exit_status = 1
    /\ has_syntax_error /\ parse_result = 0 /\ root.type = "OBJECT" /\ root.id = -1
    /\ doc = DocAuthor /\ ast_out = ASTprint(doc)

\* the number of backslashes that end at position i
RECURSIVE BackslashRun(_, _)
BackslashRun(s, i) ==
    IF i >= 1 /\ i <= Len(s) /\ Ch(s, i) = "\\" THEN 1 + BackslashRun(s, i - 1) ELSE 0

\* the first character of s starts no token: it is no white space and no
\* punctuation, no number begins there, no keyword, and no string that is closed
\* by a later unescaped double quote
StartsNoToken(s) ==
    LET c == Ch(s, 1)
    IN  /\ c \notin {"\t", " ", "\r", "\n", "{", "}", "[", "]", ":", ","}
        /\ ~Contains("0123456789", c)
        /\ ~(c = "-" /\ Len(s) >= 2 /\ Contains("0123456789", Ch(s, 2)))
        /\ ~(c = "\"" /\ \E j \in 2..Len(s) : Ch(s, j) = "\"" /\ BackslashRun(s, j - 1) % 2 = 0)
        /\ \A word \in {"true", "false", "null"} :
              ~(Len(s) >= Len(word) /\ SubSeq(s, 1, Len(word)) = word)

\* the matched part of the text, and in it the characters after the last newline
Matched == SubSeq(stdin_text, 1, Len(stdin_text) - Len(input))
Newlines(s) == {i \in 1..Len(s) : Ch(s, i) = "\n"}
AfterLastNewline(s) ==
    IF Newlines(s) = {} THEN Len(s)
    ELSE Len(s) - (CHOOSE i \in Newlines(s) : \A j \in Newlines(s) : j <= i)

ScanStep ==
    (pc = "scan" /\ input # "" /\ input' # input /\ StartsNoToken(input)) =>
        /\ token' = "ERROR"
        /\ input' = SubSeq(input, 2, Len(input))
        /\ diag' = Append(diag, "Error: Unexpected character '" \o Ch(input, 1) \o "' at line "
                                  \o to_string(lineno) \o ", column " \o to_string(column))
        /\ (~Contains(stdin_text, "\"") =>
               /\ column = AfterLastNewline(Matched) + 1
               /\ lineno = Cardinality(Newlines(Matched)) + 1)
        /\ has_syntax_error'

LexicalErrorIsFatal ==
    diag # <<>> =>
        /\ has_syntax_error
        /\ pc \in {"scan", "parsed", "done"}
        /\ (pc = "done" => exit_status = 1)
        /\ root = NoRoot /\ gen = NewGenerator /\ tableFiles = EmptyMap /\ disk = EmptyMap
        /\ (stdin_text = "$" =>
               diag = <<"Error: Unexpected character '$' at line 1, column 1">>)

\* C14: a character that starts no token makes the scanner write "Unexpected
\* character '<ch>' at line L, column C", C being the column counter before the
\* character is consumed, and return the token ERROR; the error flag is set, so
\* the run ends with status 1, without ids, tables or files.
C14_UnexpectedCharacter == [][ScanStep /\ LexicalErrorIsFatal']_vars

C14_Witness ==
    /\ stdin_text = "1\n$"
    /\ diag = <<"Error: Unexpected character '$' at line 2, column 1">>
    /\ token = "ERROR"
    /\ pc = "done" /\ exit_status = 1 /\ disk = EmptyMap

\* the number of fields of a written line: one more than its separators
FieldCount(line) ==
    1 + Cardinality({i \in 1..(Len(line) - 2) : SubSeq(line, i, i + 2) = " , "})

\* the tables whose header or rows go to a file: those with that key or that name
WritersOf(file) ==
    {k \in DOMAIN gen.tables :
        file \in {FileName(out_dir, k), FileName(out_dir, gen.tables[k].name)}}

RowsFit ==
    /\ \A k \in DOMAIN gen.tables : \A r \in 1..Len(gen.tables[k].rows) :
          Len(gen.tables[k].rows[r]) = Len(gen.tables[k].columns)
    /\ \A file \in DOMAIN disk : \A i \in 1..Len(disk[file]) :
          \E k \in WritersOf(file) : FieldCount(disk[file][i]) = Len(gen.tables[k].columns)
    /\ (pc = "done" /\ ~streamingMode) =>
          \A k \in DOMAIN gen.tables :
              FileName(out_dir, k) \in DOMAIN disk =>
                  /\ Len(disk[FileName(out_dir, k)]) = 1 + Len(gen.tables[k].rows)
                  /\ \A i \in 1..Len(disk[FileName(out_dir, k)]) :
                        FieldCount(disk[FileName(out_dir, k)][i])
                            = FieldCount(disk[FileName(out_dir, k)][1])

ColumnsFrozen ==
    pc \in {"open", "rows", "flush", "close", "done"} =>
        /\ DOMAIN gen'.tables = DOMAIN gen.tables
        /\ \A k \in DOMAIN gen.tables : gen'.tables[k].columns = gen.tables[k].columns

\* C15: every row kept in a table (batch) and every line written (streaming) has
\* as many fields as its table has columns, and once headers are written or
\* rows are generated no column list changes, so in a written file every data
\* line has as many fields as the header.
C15_RowLengthMatchesColumns == [][ColumnsFrozen /\ RowsFit']_vars

C15_Witness ==
    /\ pc = "done" /\ exit_status = 0 /\ ~streamingMode /\ out_dir = "."
    /\ "items" \in DOMAIN gen.tables
    /\ Len(gen.tables["items"].columns) = 4
    /\ Len(gen.tables["items"].rows) = 3
    /\ Len(disk["./items.csv"]) = 4

\* the objects reached from a node through object fields and arrays of objects
\* of one signature, in document order (an object before what it contains)
RECURSIVE ReachedObjects(_)
RECURSIVE ReachedIn(_, _)
ReachedObjects(n) ==
    IF n.type = "OBJECT"
    THEN <<n>> \o ReachedIn([i \in 1..Len(n.pairs) |-> n.pairs[i].value], 1)
    ELSE IF n.type = "ARRAY" /\ isArrayOfObjects(n) THEN ReachedIn(n.elements, 1)
    ELSE <<>>
ReachedIn(nodes, i) ==
    IF i > Len(nodes) THEN <<>> ELSE ReachedObjects(nodes[i]) \o ReachedIn(nodes, i + 1)

IdsAssigned == pc \in {"analyze", "rename", "relationships", "normalize", "open", "rows"}

\* C16: after the ids are assigned, the objects reached from the root through
\* object fields and arrays of objects are numbered 1, 2, ..., N in document
\* order, an object before its descendants, and every nested object and every
\* element of an array field has the id of its owning object as parentId.
C16_PreOrderIds ==
    IdsAssigned =>
        LET objs == ReachedObjects(root)
        IN  /\ \A i \in 1..Len(objs) : objs[i].id = i
            /\ \A i \in 1..Len(objs) : \A p \in 1..Len(objs[i].pairs) :
                  LET v == objs[i].pairs[p].value
                  IN  /\ v.type = "OBJECT" => v.parentId = objs[i].id
                      /\ (v.type = "ARRAY" /\ isArrayOfObjects(v)) =>
                            \A e \in 1..Len(v.elements) : v.elements[e].parentId = objs[i].id

C16_Witness ==
    /\ pc = "analyze"
    /\ Len(ReachedObjects(root)) = 7
    /\ root.type = "OBJECT" /\ root.id = 1
    /\ root.pairs[1].value.type = "ARRAY"
    /\ root.pairs[1].value.elements[2].id = 4
    /\ root.pairs[1].value.elements[2].pairs[2].value.id = 5
    /\ root.pairs[1].value.elements[2].pairs[2].value.parentId = 4

\* the successor of each phase of main after parsing and of generateCSV
NextPhase(phase) ==
    CASE phase = "assign" -> "analyze"
      [] phase = "analyze" -> "rename"
      [] phase = "rename" -> "relationships"
      [] phase = "relationships" -> "normalize"
      [] phase = "normalize" -> (IF streamingMode THEN "open" ELSE "rows")
      [] phase = "open" -> "rows"
      [] phase = "rows" -> (IF streamingMode THEN "close" ELSE "flush")
      [] phase = "flush" -> "close"
      [] phase = "close" -> "done"
      [] OTHER -> phase

EnginePhases == {"analyze", "rename", "relationships", "normalize", "open", "rows",
                 "flush", "close"}

NoRowsYet ==
    /\ \A k \in DOMAIN gen.tables : gen.tables[k].rows = <<>>
    /\ \A file \in DOMAIN disk : Len(disk[file]) <= 1
    /\ lost = 0

PhaseStep ==
    /\ pc \in EnginePhases \cup {"assign"} => pc' = NextPhase(pc)
    /\ pc' \in EnginePhases => (pc \in EnginePhases \cup {"assign"} /\ NextPhase(pc) = pc')
    /\ pc' = "assign" => (pc = "parsed" /\ parse_result = 0 /\ ~has_syntax_error)
    /\ gen' # gen => pc \in {"analyze", "rename", "relationships", "normalize", "rows"}
    /\ (\E k \in DOMAIN gen.tables : k \in DOMAIN gen'.tables
            /\ gen'.tables[k].rows # gen.tables[k].rows) => pc = "rows"
    /\ disk' # disk => pc \in {"open", "rows", "flush"}
    /\ (pc' \in {"analyze", "rename", "relationships", "normalize", "open", "rows"}
            /\ ~(pc' = "rows" /\ pc = "rows")) => NoRowsYet'
    /\ pc' \in EnginePhases =>
          (parse_result' = 0 /\ (root'.type = "OBJECT" => root'.id = 1))

\* C17: the steps after parsing follow each other in the one order assign,
\* analyze, rename, relationships, normalize, (streaming) open, rows, (batch)
\* flush, close, each taken once; tables change only in the first four engine
\* phases and in row generation, no row exists and no data line is written
\* before row generation starts, and the engine only runs after a successful
\* parse and with ids assigned.
C17_PhaseOrder == [][PhaseStep]_vars

C17_Witness ==
    /\ pc = "done" /\ exit_status = 0 /\ streamingMode /\ out_dir = "."
    /\ doc = DocMovie
    /\ disk = ("./root.csv" :> <<"id , movie , year">>
               @@ "./movies.csv" :> <<"1 , Inception , 2010">>)

NoDuplicates(seq) == \A i \in 1..Len(seq) : \A j \in 1..Len(seq) : seq[i] = seq[j] => i = j

\* C18: after structural analysis no table's column list contains a name twice,
\* and no written header does, whatever the document.
C18_UniqueColumns ==
    /\ pc \in {"rename", "relationships", "normalize", "open", "rows", "flush", "close", "done"} =>
          \A k \in DOMAIN gen.tables : NoDuplicates(gen.tables[k].columns)
    /\ (BatchDone /\ CanOpen(out_dir)) =>
          \A k \in DOMAIN gen.tables :
              disk[FileName(out_dir, k)][1] = CsvLine(gen.tables[k].columns)

\* C19: for every array-of-objects field, the row generated for the element at
\* 0-based position i has seq = i.
C19_SeqIsPosition ==
    BatchDone =>
        \A arr \in {a \in ObjectArraysOf(root) : a.parentKey # ""} :
            LET schema == gen.tables[trimString(arr.parentKey)]
            IN  \A i \in 1..Len(arr.elements) :
                   /\ \E r \in 1..Len(schema.rows) :
                         FieldOf(schema, schema.rows[r], "id") = to_string(arr.elements[i].id)
                   /\ \A r \in 1..Len(schema.rows) :
                         FieldOf(schema, schema.rows[r], "id") = to_string(arr.elements[i].id)
                             => FieldOf(schema, schema.rows[r], "seq") = to_string(i - 1)

\* C20: every object that produces a row has its assigned id in the first
\* column, named id, of a row of its table, whatever keys the object has.
C20_IdColumnHoldsObjectId ==
    BatchDone =>
        \A obj \in ObjectsOf(root) :
            (obj.tableName # "" /\ obj.tableName \in DOMAIN gen.tables) =>
                LET schema == gen.tables[obj.tableName]
                IN  /\ schema.columns[1] = "id"
                    /\ \E r \in 1..Len(schema.rows) : schema.rows[r][1] = to_string(obj.id)

-----------------------------------------------------------------------------
(* Normalisation of the id columns *)

\* the positions of a name in a column list, and the list without one position
PositionsOf(columns, name) == {i \in 1..Len(columns) : columns[i] = name}

Without(columns, i) == [j \in 1..(Len(columns) - 1) |-> IF j < i THEN columns[j] ELSE columns[j + 1]]

WithoutFirst(columns, name) ==
    IF PositionsOf(columns, name) = {} THEN columns
    ELSE Without(columns, CHOOSE i \in PositionsOf(columns, name) :
                              \A j \in PositionsOf(columns, name) : i <= j)

WithoutAll(columns, name) == SelectSeq(columns, LAMBDA c : c # name)

Normalized == pc \in {"open", "rows"} /\ "t" \in DOMAIN gen.tables

-----------------------------------------------------------------------------
(* Tables built from single nested objects *)

\* the keys under which some classified array is stored
ArrayKeys == {trimString(a.parentKey) : a \in ScalarArraysOf(root) \cup ObjectArraysOf(root)}

\* the single nested objects of a table, and the tables that hold nothing else
NestedObjectsFor(k) ==
    {o \in ObjectsOf(root) : o.tableName = k /\ o.parentKey # "" /\ o.arrayIndex < 0}

SingleObjectTables ==
    {k \in DOMAIN gen.tables :
        /\ k \notin ArrayKeys \cup {"root", "genre"}
        /\ NestedObjectsFor(k) # {}
        /\ \A o \in ObjectsOf(root) : o.tableName = k => o \in NestedObjectsFor(k)}

FirstAnalyzed(objects) == CHOOSE o \in objects : \A p \in objects : o.id <= p.id

IsPlainColumn(c) == c # "id" /\ ~IsForeignKeyName(c)

\* the value of the last scalar pair of an object under a key
LastScalar(o, key) ==
    LET hits == {i \in 1..Len(o.pairs) :
                    trimString(o.pairs[i].key) = key
                    /\ o.pairs[i].value.type \notin {"OBJECT", "ARRAY"}}
    IN  o.pairs[CHOOSE i \in hits : \A j \in hits : j <= i].value

\* C22: in a table built from single nested objects the scalar columns are the
\* scalar keys of the first object analyzed, in its order; a later object adds
\* none, and its row has one field per column: the formatted value under each
\* scalar column it has a key for, the empty string under the others, and
\* nothing for a scalar key that has no column.
C22_FirstObjectFixesColumns ==
    BatchDone =>
        \A k \in SingleObjectTables :
            LET schema == gen.tables[k]
                first == FirstAnalyzed(NestedObjectsFor(k))
            IN  /\ SelectSeq(schema.columns, IsPlainColumn)
                       = SelectSeq(ScalarKeys(first.pairs), IsPlainColumn)
                /\ \A o \in NestedObjectsFor(k) :
                      "id" \notin Range(ScalarKeys(o.pairs)) =>
                          \E r \in 1..Len(schema.rows) :
                              /\ schema.rows[r][1] = to_string(o.id)
                              /\ Len(schema.rows[r]) = Len(schema.columns)
                              /\ \A c \in {x \in Range(schema.columns) : IsPlainColumn(x)} :
                                    FieldOf(schema, schema.rows[r], c)
                                        = (IF c \in Range(ScalarKeys(o.pairs))
                                           THEN ObjectFieldValue(LastScalar(o, c))
                                           ELSE "")

C22_Witness ==
    /\ BatchDone
    /\ doc = DocTwoInfos
    /\ "info" \in SingleObjectTables
    /\ gen.tables["info"].columns = <<"id", "x">>
    /\ gen.tables["info"].rows = <<<<"3", "1">>, <<"4", "3">>>>

-----------------------------------------------------------------------------
(* Arrays that are neither arrays of objects nor arrays of scalars *)

KeyCount(o, key) == Cardinality({i \in 1..Len(o.pairs) : o.pairs[i].key = key})

SameKeys(a, b) ==
    /\ Len(a.pairs) = Len(b.pairs)
    /\ \A i \in 1..Len(a.pairs) : KeyCount(a, a.pairs[i].key) = KeyCount(b, a.pairs[i].key)

AllObjectsAlike(arr) ==
    /\ arr.elements # <<>>
    /\ \A i \in 1..Len(arr.elements) :
          arr.elements[i].type = "OBJECT" /\ SameKeys(arr.elements[i], arr.elements[1])

AllScalars(arr) ==
    /\ arr.elements # <<>>
    /\ \A i \in 1..Len(arr.elements) : arr.elements[i].type \notin {"OBJECT", "ARRAY"}

Unclassified(n) ==
    {a \in NodesOf(n) : a.type = "ARRAY" /\ ~AllObjectsAlike(a) /\ ~AllScalars(a)}

\* the nodes that are not inside an unclassified array
ReachedNodes == NodesOf(root) \ UNION {NodesOf(u) \ {u} : u \in Unclassified(root)}

\* the table keys made by the objects and the classified arrays that are reached
TablesMade ==
    {o.tableName : o \in {x \in ReachedNodes : x.type = "OBJECT"}}
    \cup {trimString(a.parentKey) : a \in {x \in ReachedNodes : x.type = "ARRAY" /\ AllObjectsAlike(x)}}
    \cup {IF a = root THEN "root" ELSE trimString(a.parentKey) :
              a \in {x \in ReachedNodes : x.type = "ARRAY" /\ AllScalars(x)}}

Analyzed == pc \in {"rename", "relationships", "normalize", "open", "rows", "flush", "close"} \/ Finished

\* C23: no array is both an array of objects and an array of scalars; an array
\* that is neither (empty, mixed, objects with different keys, or holding an
\* array) makes no table, the objects inside it keep id -1 and no table name,
\* and every row of an object table belongs to an object reached outside
\* such arrays.
C23_UnclassifiedArraysIgnored ==
    Analyzed =>
        /\ \A a \in {x \in NodesOf(root) : x.type = "ARRAY"} :
              ~(isArrayOfObjects(a) /\ isArrayOfScalars(a))
        /\ \A u \in Unclassified(root) : \A o \in ObjectsOf(u) : o.id = -1 /\ o.tableName = ""
        /\ DOMAIN gen.tables = TablesMade
        /\ BatchDone =>
              \A k \in DOMAIN gen.tables \ ({""} \cup ArrayKeys) :
                  Len(gen.tables[k].rows)
                      = Cardinality({i \in 1..Len(ReachedObjects(root)) :
                                        ReachedObjects(root)[i].tableName = k})

C23_Witness ==
    /\ BatchDone
    /\ doc = Obj(<<P("items", GenArray("hetero", 2))>>)
    /\ DOMAIN gen.tables = {"root"}
    /\ gen.tables["root"].rows = <<<<"1">>>>
    /\ \E u \in Unclassified(root) : Cardinality(ObjectsOf(u)) = 2

-----------------------------------------------------------------------------
(* Renaming of foreign key columns *)

EndsInId(col) == Len(col) >= 3 /\ SubSeq(col, Len(col) - 2, Len(col)) = "_id"

\* the table key a column ending in _id points to
PluralOfStem(col) == SubSeq(col, 1, Len(col) - 3) \o "s"

\* C24: the renaming phase rewrites a column only if its name ends in _id and
\* its stem with s appended is the old name of a table; it then becomes the
\* singular form of that table's new name followed by _id.  Every other
\* column, also one with _id in its middle, is left as it was.
C24_OnlySuffixColumnsRewritten == [][
    pc = "rename" =>
        \A k \in DOMAIN gen.tables : \A i \in 1..Len(gen.tables[k].columns) :
            LET col == gen.tables[k].columns[i]
            IN  gen'.tables[k].columns[i] =
                    (IF EndsInId(col) /\ PluralOfStem(col) \in DOMAIN gen.tables
                     THEN getSingularForm(gen'.tables[PluralOfStem(col)].name) \o "_id"
                     ELSE col)
    ]_vars

-----------------------------------------------------------------------------
(* Streaming mode against batch mode *)

\* the files a batch run leaves for the analysed tree and the tables of this state
BatchDisk ==
    LET w0 == [Working EXCEPT !.streamingMode = FALSE, !.tableFiles = EmptyMap,
                              !.disk = EmptyMap, !.lost = 0,
                              !.tables = [k \in DOMAIN gen.tables |->
                                             [gen.tables[k] EXCEPT !.rows = <<>>]]]
        r == generateRowsFromAst(root, w0)
    IN  FlushTables(SortedKeys(DOMAIN r.w.tables), 1, r.w).disk

\* C25: a streaming run leaves the same files with the same contents as a batch
\* run of the same document, and every file starts with the header of a table
\* that writes to it.
C25_StreamingMatchesBatch ==
    (Finished /\ streamingMode /\ out_dir # "") =>
        /\ disk = BatchDisk
        /\ \A file \in DOMAIN disk :
              /\ Len(disk[file]) > 0
              /\ \E k \in WritersOf(file) : disk[file][1] = CsvLine(gen.tables[k].columns)

-----------------------------------------------------------------------------
(* The id column as a key *)

\* C26: no two rows of a table have the same value in the id column, also in a
\* table fed by scalar arrays of several owners.
C26_IdsUniquePerTable ==
    BatchDone =>
        \A k \in DOMAIN gen.tables :
            NoDuplicates([r \in 1..Len(gen.tables[k].rows) |->
                             FieldOf(gen.tables[k], gen.tables[k].rows[r], "id")])

-----------------------------------------------------------------------------
(* Arrays of objects owned by a nested object *)

OwnedArrays ==
    {a \in ObjectArraysOf(root) : a.parentKey # "" /\ a.parentTable \notin {"", "root"}}

\* the table of the array holds the rows of its elements and of nothing else
OnlyFeeder(a) ==
    /\ trimString(a.parentKey) \in DOMAIN gen.tables
    /\ \A o \in ObjectsOf(root) : o.tableName = trimString(a.parentKey) => o \in Range(a.elements)
    /\ \A s \in ScalarArraysOf(root) : trimString(s.parentKey) # trimString(a.parentKey)

\* C27: for an array of objects owned by an object other than the root, the
\* row of every element holds the owner's id in the foreign key column (the
\* second column), whatever the owner's key.
C27_ElementRowsCarryOwnerId ==
    BatchDone =>
        \A a \in {x \in OwnedArrays : OnlyFeeder(x)} :
            LET rows == gen.tables[trimString(a.parentKey)].rows
            IN  /\ Len(rows) = Len(a.elements)
                /\ \A r \in 1..Len(rows) :
                      /\ IsForeignKeyName(gen.tables[trimString(a.parentKey)].columns[2])
                      /\ rows[r][2] = to_string(a.parentId)

-----------------------------------------------------------------------------
(* Repeated scalar keys *)

RepeatedScalarKeys(o) ==
    {key \in Range(ScalarKeys(o.pairs)) :
        Cardinality({i \in 1..Len(o.pairs) :
                        trimString(o.pairs[i].key) = key
                        /\ o.pairs[i].value.type \notin {"OBJECT", "ARRAY"}}) > 1}

\* C28: an object with a scalar key more than once keeps all its pairs in the
\* tree, in the order of the document, and in its row the field under that
\* key's column (the first column of that name) holds the formatted value of
\* the last pair with that key.
C28_LastRepeatedKeyWins ==
    /\ ((IdsAssigned \/ Analyzed) /\ doc.type = "OBJECT") =>
          /\ Len(root.pairs) = Len(doc.pairs)
          /\ \A i \in 1..Len(doc.pairs) : root.pairs[i].key = doc.pairs[i].key
    /\ BatchDone =>
          \A o \in {x \in ObjectsOf(root) : x.tableName \in DOMAIN gen.tables} :
              \A key \in RepeatedScalarKeys(o) :
                  (key \in Range(gen.tables[o.tableName].columns) /\ ~IsForeignKeyName(key)) =>
                      \E r \in 1..Len(gen.tables[o.tableName].rows) :
                          LET row == gen.tables[o.tableName].rows[r]
                          IN  /\ key # "id" => row[1] = to_string(o.id)
                              /\ FieldOf(gen.tables[o.tableName], row, key)
                                     = ObjectFieldValue(LastScalar(o, key))

C28_Witness ==
    /\ BatchDone
    /\ doc = DocRepeat
    /\ RepeatedScalarKeys(root) = {"a"}
    /\ gen.tables["root"].rows = <<<<"1", "z", "">>>>

-----------------------------------------------------------------------------
(* getSingularForm *)

EndsInS(str) == Len(str) > 0 /\ Ch(str, Len(str)) = "s"

\* t is str without one trailing s if str is longer than one character and ends
\* in s, and str itself otherwise
IsSingularOf(t, str) == IF Len(str) > 1 /\ EndsInS(str) THEN t \o "s" = str ELSE t = str

PrefixesOf(str) == {SubSeq(str, 1, j) : j \in 0..Len(str)}

-----------------------------------------------------------------------------
(* Decoding of \uXXXX escapes *)

UpperHex == "0123456789ABCDEF"
LowerHex == "0123456789abcdef"

IsHexChar(c) == Len(c) = 1 /\ (Contains(UpperHex, c) \/ Contains(LowerHex, c))

HexValue(c) == IF Contains(UpperHex, c) THEN Find(UpperHex, c) - 1 ELSE Find(LowerHex, c) - 1

\* the text between the quotes of a token
BodyOf(yytext) == SubSeq(yytext, 2, Len(yytext) - 1)

\* body is made of escapes \u followed by four hexadecimal digits, and nothing else
AllUnits(body) ==
    /\ Len(body) % 6 = 0
    /\ \A k \in 0..((Len(body) \div 6) - 1) :
          /\ SubSeq(body, 6 * k + 1, 6 * k + 2) = "\\u"
          /\ \A d \in 3..6 : IsHexChar(Ch(body, 6 * k + d))

\* the value of the k-th escape of such a body, counted from 0
UnitValue(body, k) ==
    4096 * HexValue(Ch(body, 6 * k + 3)) + 256 * HexValue(Ch(body, 6 * k + 4))
        + 16 * HexValue(Ch(body, 6 * k + 5)) + HexValue(Ch(body, 6 * k + 6))

\* the UTF-8 bytes of one value below 65536
Utf8(c) ==
    IF c <= 127 THEN <<c>>
    ELSE IF c <= 2047 THEN <<192 + (c \div 64), 128 + (c % 64)>>
    ELSE <<224 + (c \div 4096), 128 + ((c \div 64) % 64), 128 + (c % 64)>>

RECURSIVE UnitsDecoded(_, _)
UnitsDecoded(body, k) ==
    IF 6 * k >= Len(body) THEN <<>> ELSE Utf8(UnitValue(body, k)) \o UnitsDecoded(body, k + 1)

\* body is \u followed by fewer than four characters, none of them a backslash
CutShort(body) ==
    /\ Len(body) >= 2 /\ Len(body) < 6
    /\ SubSeq(body, 1, 2) = "\\u"
    /\ \A i \in 3..Len(body) : Ch(body, i) # "\\"

\* C30: an escape \u with four hexadecimal digits before the closing quote is
\* decoded to the bytes of its value c: c itself up to 0x7F, 0xC0|c>>6 and
\* 0x80|c&0x3F up to 0x7FF, else 0xE0|c>>12, 0x80|(c>>6)&0x3F and 0x80|c&0x3F,
\* each escape on its own; with fewer than four characters before the closing
\* quote the escape gives ? and the characters are kept as they are.
C30_UnicodeEscape ==
    pc = "stringed" =>
        /\ AllUnits(BodyOf(qin)) => qout = UnitsDecoded(BodyOf(qin), 0)
        /\ CutShort(BodyOf(qin)) =>
               qout = <<63>> \o [i \in 1..(Len(BodyOf(qin)) - 2) |-> CharCode(Ch(BodyOf(qin), i + 2))]
        /\ \A i \in 1..Len(qout) : qout[i] \in 0..255

C30_Witness == pc = "stringed" /\ qin = "\"\\u0800\"" /\ qout = <<224, 160, 128>>

====
